---- MODULE Spec2Model ----
(***************************************************************************)
(* Transaction dispatch engine of the TrustMint / LendingPool toolkit      *)
(* (streamlit/src/frontend/components/toolkit.py): fee strategy, session   *)
(* nonce allocator, sign-and-send classification and the write tools that  *)
(* use them.  Amounts are in wei; one gwei is 10^9 wei.                    *)
(***************************************************************************)
EXTENDS Integers, Sequences, FiniteSets, TLC

\* ---------------------------------------------------------------- bounds
\* Largest transaction count the modelled chain reaches per address.
MaxCount == 2
\* Number of tool invocations explored in one session.
MaxCalls == 3

\* ------------------------------------------------------- python values
\* Python's None (an unset session key, an unset environment variable).
None == -1
Unset == "<unset>"
\* The outcome of an int(...) that raises ValueError.
ParseError == -2

\* int(s) for the strings the environment supplies.
ParseInt(s) ==
  CASE s = "0" -> 0
    [] s = "1" -> 1
    [] OTHER -> ParseError

Max(x, y) == IF x >= y THEN x ELSE y

\* Web3.to_wei(n, "gwei")
ToWeiGwei(n) == n * 1000000000

\* --------------------------------------------- int(fee * 1.15) in binary64
\* Little-endian hexadecimal digits of a natural number.
RECURSIVE ToDigits(_)
ToDigits(n) == IF n = 0 THEN <<>> ELSE <<n % 16>> \o ToDigits(n \div 16)

\* The 53-bit significand of the double nearest to 1.15
\* (float.hex(1.15) = 0x1.2666666666666p+0), little-endian hex digits;
\* the double is this integer divided by 2^52.
Significand115 == <<6, 6, 6, 6, 6, 6, 6, 6, 6, 6, 6, 6, 2, 1>>
FractionBits == 52
SignificandBits == 53

\* Sum over i of a[i] * b[k + 1 - i]: column k of the schoolbook product.
RECURSIVE ColSum(_, _, _, _)
ColSum(a, b, k, i) ==
  IF i > Len(a) THEN 0
  ELSE (IF k + 1 - i >= 1 /\ k + 1 - i <= Len(b) THEN a[i] * b[k + 1 - i] ELSE 0)
       + ColSum(a, b, k, i + 1)

\* Exact product of two digit sequences, as little-endian bits.
RECURSIVE MulBits(_, _, _, _)
MulBits(a, b, k, carry) ==
  IF k > Len(a) + Len(b)
  THEN <<>>
  ELSE LET t == ColSum(a, b, k, 1) + carry
           d == t % 16
       IN <<d % 2, (d \div 2) % 2, (d \div 4) % 2, d \div 8>>
          \o MulBits(a, b, k + 1, t \div 16)

\* Index of the highest set bit (0 when there is none).
RECURSIVE BitLength(_, _)
BitLength(bits, i) ==
  IF i = 0 THEN 0 ELSE IF bits[i] = 1 THEN i ELSE BitLength(bits, i - 1)

RECURSIVE AnySet(_, _, _)
AnySet(bits, lo, hi) ==
  IF lo > hi THEN FALSE ELSE bits[lo] = 1 \/ AnySet(bits, lo + 1, hi)

\* bits + 1
RECURSIVE IncBits(_)
IncBits(bits) ==
  IF bits = <<>> THEN <<1>>
  ELSE IF Head(bits) = 0 THEN <<1>> \o Tail(bits)
  ELSE <<0>> \o IncBits(Tail(bits))

RECURSIVE FromBits(_)
FromBits(bits) ==
  IF bits = <<>> THEN 0 ELSE Head(bits) + 2 * FromBits(Tail(bits))

\* int(x * 1.15): x is converted to a double exactly (x < 2^53), the exact
\* product with the significand of 1.15 is rounded to 53 significant bits,
\* ties to even, and int() drops the fractional bits.
BumpFee(x) ==
  IF x = 0 THEN 0
  ELSE
    LET p == MulBits(ToDigits(x), Significand115, 1, 0)
        l == BitLength(p, Len(p))
        s == IF l > SignificandBits THEN l - SignificandBits ELSE 0
        kept == SubSeq(p, s + 1, l)
        roundUp == /\ s > 0
                   /\ p[s] = 1
                   /\ (AnySet(p, 1, s - 1) \/ kept[1] = 1)
        rounded == IF roundUp THEN IncBits(kept) ELSE kept
    IN FromBits(SubSeq(rounded, FractionBits - s + 1, Len(rounded)))

\* ------------------------------------------------------------ dictionaries
\* Python dictionaries are records with an explicit key set: a field counts
\* as present only when its name is in `keys`.
NoText == <<>>
NoFees == [keys |-> {}, maxFeePerGas |-> None, maxPriorityFeePerGas |-> None,
           gasPrice |-> None]
NoAmount == [digits |-> 0, zeros |-> 0]
NoTx == [from |-> "", nonce |-> None, fn |-> "", argument |-> NoAmount, value |-> NoAmount,
         fees |-> NoFees]
NoHash == [keccak |-> NoTx]
EmptyDict == [keys |-> {}, success |-> FALSE, error |-> NoText, txHash |-> NoHash,
              status |-> "", receipt |-> None, metamask |-> NoTx]

\* phrase in text, for texts and phrases held as sequences of words.
Contains(text, phrase) ==
  \E i \in 0..(Len(text) - Len(phrase)) :
     \A j \in 1..Len(phrase) : text[i + j] = phrase[j]

tool_success(payload) ==
  [payload EXCEPT !.keys = @ \cup {"success"}, !.success = TRUE]

\* The error result with the flag of a success.
tool_error_Succeeds(message) ==
  [EmptyDict EXCEPT !.keys = {"success", "error"}, !.success = TRUE,
                    !.error = message]

tool_error(message) ==
  [EmptyDict EXCEPT !.keys = {"success", "error"}, !.error = message]

\* ------------------------------------------------------------ fee strategy
\* What w3.eth.get_block("latest") can give: the call raises, the block has
\* no baseFeePerGas key, the key holds None, or it holds a base fee in wei.
BaseFees == {7, 50, 400000000}
BlockRaises == [ok |-> FALSE, hasField |-> FALSE, baseFeePerGas |-> None]
BlockNoField == [ok |-> TRUE, hasField |-> FALSE, baseFeePerGas |-> None]
BlockNull == [ok |-> TRUE, hasField |-> TRUE, baseFeePerGas |-> None]
BlockWith(b) == [ok |-> TRUE, hasField |-> TRUE, baseFeePerGas |-> b]
Blocks == {BlockRaises, BlockNoField, BlockNull} \cup {BlockWith(b) : b \in BaseFees}

_supports_eip1559_NoNullCheck(latest) ==
  latest.ok /\ latest.hasField

_supports_eip1559(latest) ==
  latest.ok /\ latest.hasField /\ latest.baseFeePerGas # None

FeesRaise == [NoFees EXCEPT !.keys = {"raise"}]

\* _fee_params with the base fee counted once in the default ceiling.
_fee_params_SingleBase(latest1, latest2, gas_price_gwei, prio_env, max_env) ==
  IF _supports_eip1559(latest1)
  THEN
    LET readOk == latest2.ok /\ latest2.hasField /\ latest2.baseFeePerGas # None
        gp == ParseInt(gas_price_gwei)
        base == IF readOk THEN latest2.baseFeePerGas ELSE ToWeiGwei(gp) \div 2
        prio_gwei == ParseInt(IF prio_env = Unset THEN "1" ELSE prio_env)
        prio == ToWeiGwei(prio_gwei)
        ceiling == IF max_env = Unset THEN ParseError ELSE ParseInt(max_env)
        max_fee == IF max_env # Unset /\ max_env # "" /\ ceiling # ParseError
                   THEN ToWeiGwei(ceiling)
                   ELSE base + prio
    IN IF (~readOk /\ gp = ParseError) \/ prio_gwei = ParseError
       THEN FeesRaise
       ELSE [NoFees EXCEPT !.keys = {"maxFeePerGas", "maxPriorityFeePerGas"},
                           !.maxFeePerGas = max_fee,
                           !.maxPriorityFeePerGas = prio]
  ELSE
    IF ParseInt(gas_price_gwei) = ParseError
    THEN FeesRaise
    ELSE [NoFees EXCEPT !.keys = {"gasPrice"},
                        !.gasPrice = ToWeiGwei(ParseInt(gas_price_gwei))]

\* latest1 is the block read by _supports_eip1559, latest2 the block read
\* again by _fee_params; prio_env and max_env are ARC_PRIORITY_FEE_GWEI and
\* ARC_MAX_FEE_GWEI.  A result with keys = {"raise"} is an exception leaving
\* the function.
_fee_params(latest1, latest2, gas_price_gwei, prio_env, max_env) ==
  IF _supports_eip1559(latest1)
  THEN
    LET readOk == latest2.ok /\ latest2.hasField /\ latest2.baseFeePerGas # None
        gp == ParseInt(gas_price_gwei)
        base == IF readOk THEN latest2.baseFeePerGas ELSE ToWeiGwei(gp) \div 2
        prio_gwei == ParseInt(IF prio_env = Unset THEN "1" ELSE prio_env)
        prio == ToWeiGwei(prio_gwei)
        ceiling == IF max_env = Unset THEN ParseError ELSE ParseInt(max_env)
        max_fee == IF max_env # Unset /\ max_env # "" /\ ceiling # ParseError
                   THEN ToWeiGwei(ceiling)
                   ELSE base * 2 + prio
    IN IF (~readOk /\ gp = ParseError) \/ prio_gwei = ParseError
       THEN FeesRaise
       ELSE [NoFees EXCEPT !.keys = {"maxFeePerGas", "maxPriorityFeePerGas"},
                           !.maxFeePerGas = max_fee,
                           !.maxPriorityFeePerGas = prio]
  ELSE
    IF ParseInt(gas_price_gwei) = ParseError
    THEN FeesRaise
    ELSE [NoFees EXCEPT !.keys = {"gasPrice"},
                        !.gasPrice = ToWeiGwei(ParseInt(gas_price_gwei))]

\* --------------------------------------------------------- keys and signers
\* bool(key) is False for None and for the empty string.
NoKey == ""
\* w3.eth.account.from_key(key).address; "" stands for the call raising.
FromKey(key) ==
  CASE key = "keyA" -> "0xAa"
    [] key = "keyB" -> "0xBb"
    [] OTHER -> ""

\* addr.lower()
Lower(addr) ==
  CASE addr = "0xAa" -> "0xaa"
    [] addr = "0xBb" -> "0xbb"
    [] OTHER -> addr

\* The accounts of the chain, which does not distinguish letter case.
Accounts == {"0xaa", "0xbb"}

\* --------------------------------------------------------- nonce allocator
\* A failed w3.eth.get_transaction_count call.
RpcError == -3

\* Variants of _next_nonce with a plausible slip each.
_next_nonce_NoBumpOnEqual(state, addr, pendingRead, confirmedRead) ==
  LET fetched == IF pendingRead # RpcError THEN pendingRead ELSE confirmedRead
      key == Lower(addr)
      last == state[key]
      pending == IF last # None /\ fetched < last THEN last + 1 ELSE fetched
  IN IF fetched = RpcError
     THEN [raised |-> TRUE, nonce |-> None, state |-> state, reads |-> 2]
     ELSE [raised |-> FALSE, nonce |-> pending,
           state |-> [state EXCEPT ![key] = pending],
           reads |-> IF pendingRead # RpcError THEN 1 ELSE 2]

_next_nonce_RecordsChainCount(state, addr, pendingRead, confirmedRead) ==
  LET fetched == IF pendingRead # RpcError THEN pendingRead ELSE confirmedRead
      key == Lower(addr)
      last == state[key]
      pending == IF last # None /\ fetched <= last THEN last + 1 ELSE fetched
  IN IF fetched = RpcError
     THEN [raised |-> TRUE, nonce |-> None, state |-> state, reads |-> 2]
     ELSE [raised |-> FALSE, nonce |-> pending,
           state |-> [state EXCEPT ![key] = fetched],
           reads |-> IF pendingRead # RpcError THEN 1 ELSE 2]

_next_nonce_BumpsPastChain(state, addr, pendingRead, confirmedRead) ==
  LET fetched == IF pendingRead # RpcError THEN pendingRead ELSE confirmedRead
      key == Lower(addr)
      last == state[key]
      pending == IF last # None THEN Max(fetched, last) + 1 ELSE fetched
  IN IF fetched = RpcError
     THEN [raised |-> TRUE, nonce |-> None, state |-> state, reads |-> 2]
     ELSE [raised |-> FALSE, nonce |-> pending,
           state |-> [state EXCEPT ![key] = pending],
           reads |-> IF pendingRead # RpcError THEN 1 ELSE 2]

_next_nonce_FallbackUnbumped(state, addr, pendingRead, confirmedRead) ==
  LET fetched == IF pendingRead # RpcError THEN pendingRead ELSE confirmedRead
      key == Lower(addr)
      last == state[key]
      pending == IF pendingRead # RpcError /\ last # None /\ fetched <= last
                 THEN last + 1 ELSE fetched
  IN IF fetched = RpcError
     THEN [raised |-> TRUE, nonce |-> None, state |-> state, reads |-> 2]
     ELSE [raised |-> FALSE, nonce |-> pending,
           state |-> [state EXCEPT ![key] = pending],
           reads |-> IF pendingRead # RpcError THEN 1 ELSE 2]

\* The allocator handing the last nonce out again while the chain's count
\* has not passed it.
_next_nonce_ReissuesLast(state, addr, pendingRead, confirmedRead) ==
  LET fetched == IF pendingRead # RpcError THEN pendingRead ELSE confirmedRead
      key == Lower(addr)
      last == state[key]
      pending == IF last # None /\ fetched <= last THEN last ELSE fetched
  IN IF fetched = RpcError
     THEN [raised |-> TRUE, nonce |-> None, state |-> state, reads |-> 2]
     ELSE [raised |-> FALSE, nonce |-> pending,
           state |-> [state EXCEPT ![key] = pending],
           reads |-> IF pendingRead # RpcError THEN 1 ELSE 2]

_next_nonce_IgnoresSession(state, addr, pendingRead, confirmedRead) ==
  LET fetched == IF pendingRead # RpcError THEN pendingRead ELSE confirmedRead
      key == Lower(addr)
  IN IF fetched = RpcError
     THEN [raised |-> TRUE, nonce |-> None, state |-> state, reads |-> 2]
     ELSE [raised |-> FALSE, nonce |-> fetched,
           state |-> [state EXCEPT ![key] = fetched],
           reads |-> IF pendingRead # RpcError THEN 1 ELSE 2]

\* pendingRead is what get_transaction_count(addr, "pending") gave and
\* confirmedRead what get_transaction_count(addr) gave (read only when the
\* first call failed).  state is st.session_state restricted to the
\* "_nonce_<addr>" keys.
_next_nonce(state, addr, pendingRead, confirmedRead) ==
  LET fetched == IF pendingRead # RpcError THEN pendingRead ELSE confirmedRead
      key == Lower(addr)
      last == state[key]
      pending == IF last # None /\ fetched <= last THEN last + 1 ELSE fetched
  IN IF fetched = RpcError
     THEN [raised |-> TRUE, nonce |-> None, state |-> state,
           reads |-> 2]
     ELSE [raised |-> FALSE, nonce |-> pending,
           state |-> [state EXCEPT ![key] = pending],
           reads |-> IF pendingRead # RpcError THEN 1 ELSE 2]

\* ------------------------------------------------------------ sign and send
\* Web3.keccak(raw_tx).hex() of the signed payload: determined by the
\* transaction's content.
Keccak(tx) == [keccak |-> tx]

AlreadyKnownText == <<"already", "known">>
ReplacementText == <<"replacement", "transaction", "underpriced">>
UnderpricedText == <<"transaction", "underpriced">>
NonceTooLowText == <<"nonce", "too", "low">>
TimeoutText == <<"not", "in", "the", "chain", "after", "120", "seconds">>
ConnectionText == <<"connection", "refused">>
SignText == <<"invalid", "transaction", "fields">>

\* What one run of _sign_and_send meets.
\*   sign_raise   sign_transaction raises
\*   raw_missing  the signed object has neither raw attribute
\*   receipt      send_raw_transaction and wait_for_transaction_receipt return
\*   web3         one of the two raises a Web3Exception with the given text;
\*                accepted tells whether the node took the transaction first
\*   other        one of the two raises another exception
Event(kind, text, accepted, status) ==
  [kind |-> kind, text |-> text, accepted |-> accepted, status |-> status]

Submits(ev) == ev.kind \in {"receipt", "web3", "other"}

\* _sign_and_send without the "already known" case.
_sign_and_send_NoAlreadyKnown(tx, ev) ==
  LET local_hash == Keccak(tx)
      failed(text) == [EmptyDict EXCEPT !.keys = {"error"},
                                        !.error = <<"sign/send", "error:">> \o text]
  IN CASE ev.kind = "sign_raise" -> failed(ev.text)
       [] ev.kind = "raw_missing" ->
            [EmptyDict EXCEPT !.keys = {"error"},
                              !.error = <<"Signed", "transaction", "missing",
                                          "rawTransaction/raw_transaction">>]
       [] ev.kind = "receipt" ->
            [EmptyDict EXCEPT !.keys = {"txHash", "receipt"},
                              !.txHash = local_hash, !.receipt = ev.status]
       [] ev.kind = "web3" ->
            IF Contains(ev.text, <<"replacement", "transaction", "underpriced">>)
            THEN [EmptyDict EXCEPT !.keys = {"txHash", "status"},
                                   !.txHash = local_hash, !.status = "underpriced"]
            ELSE failed(ev.text)
       [] OTHER -> failed(ev.text)

_sign_and_send(tx, ev) ==
  LET local_hash == Keccak(tx)
      failed(text) == [EmptyDict EXCEPT !.keys = {"error"},
                                        !.error = <<"sign/send", "error:">> \o text]
  IN CASE ev.kind = "sign_raise" -> failed(ev.text)
       [] ev.kind = "raw_missing" ->
            [EmptyDict EXCEPT !.keys = {"error"},
                              !.error = <<"Signed", "transaction", "missing",
                                          "rawTransaction/raw_transaction">>]
       [] ev.kind = "receipt" ->
            [EmptyDict EXCEPT !.keys = {"txHash", "receipt"},
                              !.txHash = local_hash, !.receipt = ev.status]
       [] ev.kind = "web3" ->
            IF Contains(ev.text, <<"already", "known">>)
            THEN [EmptyDict EXCEPT !.keys = {"txHash", "status"},
                                   !.txHash = local_hash, !.status = "already_known"]
            ELSE IF Contains(ev.text, <<"replacement", "transaction", "underpriced">>)
            THEN [EmptyDict EXCEPT !.keys = {"txHash", "status"},
                                   !.txHash = local_hash, !.status = "underpriced"]
            ELSE failed(ev.text)
       [] OTHER -> failed(ev.text)

\* ------------------------------------------------------------------ state
VARIABLES
  env,              \* GAS_PRICE_GWEI, ARC_PRIORITY_FEE_GWEI, ARC_MAX_FEE_GWEI
  private_keys,     \* PRIVATE_KEY, LENDER_PRIVATE_KEY per role
  role,             \* the active role of the tool page
  role_addresses,   \* st.session_state["role_addresses"]
  session_state,    \* st.session_state["_nonce_<addr>"], None when unset
  txCount,          \* chain: confirmed transaction count per account
  pendingCount,     \* chain: pending-inclusive transaction count per account
  calls,            \* tool invocations made so far in the session
  call,             \* what the latest tool invocation did
  inputs,           \* the arguments the latest tool invocation was given
  result,           \* the ToolResult the latest invocation returned
  alloc,            \* the run of _next_nonce in the latest invocation
  returned,         \* per account, the nonce _next_nonce returned last
  confirmedSince,   \* per account, a transaction confirmed since its last nonce
  submitted,        \* per account, the nonces handed to send_raw_transaction
  quote             \* the latest stand-alone fee quote

\* The MetaMask bridge of the tool page, per (key_prefix, selected tool).
VARIABLES
  mm_state,         \* st.session_state["mm_state_<prefix>_<tool>"]
  component_value,  \* what wallet_command returns for the key's component
  interaction,      \* the key and button of the latest run of the section
  runs,             \* runs of the wallet section made so far in the session
  created,          \* per key, the largest sequence given to a command so far
  superseded        \* per key, the sequence of the outstanding send_transaction
                    \* that the outstanding send_transaction replaced

bridgeVars == <<mm_state, component_value, interaction, runs, created, superseded>>

\* The tool-calling loop of the chatbot and the "Run MCP tool" button.
VARIABLES
  messages,         \* the history list run_mcp_llm_conversation appends to
  invoked,          \* the handlers called in the latest pass of the loop
  loop,             \* where run_mcp_llm_conversation is
  turns,            \* passes of the loop that handled tool calls
  final_content,    \* message.content of the response without tool calls
  requested,        \* the messages given to the latest completions.create
  requests,         \* the calls of completions.create the function has made
  page              \* what the latest press of "Run MCP tool" left on the page

chatVars == <<messages, invoked, loop, turns, final_content, requested, requests,
              page>>
pageVars == <<bridgeVars, chatVars>>

\* The SBT contract the read tools call, and the browser sessions that use
\* the page against one chain.
VARIABLES
  contract,         \* which accessors the contract has and what they answer
  sessions          \* per browser session: its nonce state, the nonce issued last

sideVars == <<contract, sessions>>

vars == <<env, private_keys, role, role_addresses, session_state, txCount, pendingCount, calls,
          call, inputs, result, alloc, returned, confirmedSince, submitted, quote, pageVars,
          sideVars>>

chainVars == <<txCount, pendingCount>>
sessionVars == <<session_state, calls, call, inputs, result, alloc, returned,
                 confirmedSince, submitted>>
configVars == <<env, private_keys>>

Env(gp, prio, max) == [gas_price_gwei |-> gp, prio_env |-> prio, max_env |-> max]

\* Environments of the transaction sessions explored.
SessionEnvs == {Env("1", "0", Unset), Env("0", Unset, Unset)}
\* Latest blocks the transaction sessions meet.
SessionBlocks == {BlockRaises, BlockWith(50)}
\* Environments of the stand-alone fee quotes.
QuoteEnvs == {Env(gp, prio, max) : gp \in {"0", "1", "abc"},
                                   prio \in {Unset, "", "0", "1", "abc"},
                                   max \in {Unset, "", "0", "1", "abc"}}

Roles == {"Read-only", "Owner", "Lender", "Borrower"}
AssignableRoles == {"Owner", "Lender", "Borrower"}
\* The address of the connected browser wallet.
WalletAddress == "0xBb"
\* Roles, keys and assigned wallet addresses of the sessions explored.
SessionRoles == {"Owner", "Lender"}
Unassigned == [r \in AssignableRoles |-> ""]
NoKeys == [r \in AssignableRoles |-> NoKey]
SessionConfigs ==
  {[private_keys |-> [Owner |-> "keyA", Lender |-> "keyB", Borrower |-> NoKey],
    role_addresses |-> Unassigned],
   [private_keys |-> NoKeys,
    role_addresses |-> Unassigned],
   [private_keys |-> NoKeys,
    role_addresses |-> [Unassigned EXCEPT !["Lender"] = WalletAddress]]}

NoAlloc == [key |-> "", pendingRead |-> RpcError,
            confirmedRead |-> RpcError, last |-> None, prev |-> None,
            raised |-> FALSE, nonce |-> None, reads |-> 0,
            confirmedBetween |-> FALSE]
NoCall == [fn |-> "", from |-> "", allocs |-> 0, quotes |-> <<>>, attempts |-> <<>>]
\* amount: the amount or principal in hundredths; address_ok: the address
\* argument, if the tool has one, is a valid address.
NoInputs == [amount |-> None, address_ok |-> TRUE]
NoQuote == [made |-> FALSE, latest1 |-> BlockRaises, latest2 |-> BlockRaises,
            fees |-> NoFees]

\* ---------------------------------------------------------- wallet bridge
\* The keys f"{key_prefix}_{selected}" of the bridge states explored.
BridgeKeys == {"pool_deposit"}

\* Largest value of int(time() * 1000) read in a session, counted from the
\* first reading.
MaxTime == 2
\* Number of runs of the wallet section explored in one session.
MaxRuns == 4
Times == 1..MaxTime

\* mm_state["pending_command"]; NoCommand is Python's None.
NoCommand == [command |-> "", payload |-> "", sequence |-> None]

\* A value of the wallet_command component; NoValue is Python's None.
NoValue == [isDict |-> FALSE, keys |-> {}, commandSequence |-> None,
            address |-> "", chainId |-> None, txHash |-> "", error |-> ""]

\* The chain id the wallet reports.
WalletChain == 1

\* The bridge's answer to the command of sequence n: done, or failed.
BridgeDone(n) ==
  [isDict |-> TRUE, keys |-> {"commandSequence", "address", "chainId", "txHash"},
   commandSequence |-> n, address |-> WalletAddress, chainId |-> WalletChain,
   txHash |-> "0xhash", error |-> ""]
BridgeFailed(n) ==
  [isDict |-> TRUE, keys |-> {"commandSequence", "error"},
   commandSequence |-> n, address |-> "", chainId |-> None,
   txHash |-> "", error |-> "User rejected the request."]
\* A wallet status the component reports on its own, and a value that is
\* not a dictionary.
BridgeStatus ==
  [isDict |-> TRUE, keys |-> {"address", "chainId"},
   commandSequence |-> None, address |-> WalletAddress, chainId |-> WalletChain,
   txHash |-> "", error |-> ""]
BridgeText ==
  [isDict |-> FALSE, keys |-> {"text"}, commandSequence |-> None,
   address |-> "", chainId |-> None, txHash |-> "", error |-> ""]

BridgeValues ==
  {BridgeDone(n) : n \in Times} \cup {BridgeFailed(n) : n \in Times}
  \cup {BridgeStatus, BridgeText}

\* No mm_state stored under the key.
NoState == [present |-> FALSE, metamask |-> NoTx, pending_command |-> NoCommand,
            last_result |-> NoValue, last_value |-> NoValue,
            wallet_address |-> "", wallet_chain |-> None]

\* The arguments wallet_command gets; "" and None are Python's None.
NoCommandSent == [command |-> "", command_payload |-> "", command_sequence |-> None]
NoInteraction == [key |-> "", button |-> "", sent |-> NoCommandSent]

InitBridge ==
  /\ mm_state = [k \in BridgeKeys |-> NoState]
  /\ component_value = [k \in BridgeKeys |-> NoValue]
  /\ interaction = NoInteraction
  /\ runs = 0
  /\ created = [k \in BridgeKeys |-> 0]
  /\ superseded = [k \in BridgeKeys |-> None]

\* ------------------------------------------------------- tool-calling loop
\* Most passes of the loop that handle tool calls in one conversation.
MaxTurns == 1

\* The names of function_map, and a name the model asks for that is not in it.
function_map == {"hasSbt"}
ToolNames == function_map \cup {"mint"}

\* What a handler does with the arguments it is given: it returns a string,
\* returns a dictionary, rejects the arguments (TypeError) or raises another
\* exception.
Behaviours == {"str", "dict", "TypeError", "Exception"}

\* A tool call of a response: the name, the arguments payload (valid JSON or
\* not) and what the handler would do.
ToolCall(name, args, does) ==
  [id |-> "", name |-> name, args |-> args, does |-> does]
ToolCalls ==
  {ToolCall(n, "valid", d) : n \in function_map, d \in Behaviours}
  \cup {ToolCall(n, "malformed", d) : n \in function_map, d \in {"str", "TypeError"}}
  \cup {ToolCall(n, "valid", "str") : n \in ToolNames \ function_map}

\* The tool_calls of a response that has any: one call or two.
\* The model gives each call of a response an id of its own.
ToolCallLists ==
  {<<[c EXCEPT !.id = "call_1"]>> : c \in ToolCalls}
  \cup {<<[c EXCEPT !.id = "call_1"], [d EXCEPT !.id = "call_2"]>> :
          c \in ToolCalls, d \in ToolCalls}

\* message.content of a response without tool calls: None or "" or a text.
Contents == {"", "answer"}

NoCalls == <<>>
Message(r, name, content, output, tcs) ==
  [role |-> r, tool_call_id |-> "", name |-> name, content |-> content,
   output |-> output, tool_calls |-> tcs]
UserMessage == Message("user", "", "question", EmptyDict, NoCalls)

HandlerResult == tool_success(EmptyDict)
RejectedText == <<"got", "an", "unexpected", "keyword", "argument">>
FaultText == <<"execution", "reverted">>
NotRegisteredText(tool_name) ==
  <<"Tool", "'", tool_name, "'", "is", "not", "registered.">>

\* The required parameters of the tool selected in the runner, and the
\* values its form hands over, written as Python writes them: a text input
\* left blank is '', a number input left alone is 0.
RequiredParams == {"wallet_address", "score_value"}
FormInputs == [wallet_address : {"''", "'0xAa'"}, score_value : {"0", "5"}]
NoInputsGiven == [wallet_address |-> "None", score_value |-> "None"]

NoPage == [kind |-> "", does |-> "", text |-> NoText, result |-> EmptyDict,
           given |-> NoInputsGiven]

InitChat ==
  /\ messages = <<UserMessage>>
  /\ invoked = <<>>
  /\ loop = "running"
  /\ turns = 0
  /\ final_content = Unset
  /\ requested = <<UserMessage>>
  /\ requests = 1
  /\ page = NoPage

InitPage == InitBridge /\ InitChat

\* component_value.get("commandSequence") == pending.get("sequence")
Resolves(pending, value) ==
  /\ pending # NoCommand
  /\ value.isDict
  /\ value.commandSequence = pending.sequence

\* Value handling that takes any dictionary for the answer.
_receive_AnyResult(mm, value) ==
  LET from_address == mm.metamask.from
      m1 == IF from_address # "" /\ mm.wallet_address = ""
            THEN [mm EXCEPT !.wallet_address = from_address]
            ELSE mm
  IN IF value = NoValue THEN m1
     ELSE IF m1.pending_command # NoCommand /\ value.isDict
     THEN [m1 EXCEPT !.last_value = value,
                     !.last_result = value,
                     !.pending_command = NoCommand,
                     !.wallet_address = IF value.address # "" THEN value.address ELSE @,
                     !.wallet_chain = IF value.chainId # None THEN value.chainId ELSE @]
     ELSE [m1 EXCEPT !.last_value = value]

\* Value handling that keeps the command outstanding when the answer
\* carries an error.
_receive_KeepsOnError(mm, value) ==
  LET from_address == mm.metamask.from
      m1 == IF from_address # "" /\ mm.wallet_address = ""
            THEN [mm EXCEPT !.wallet_address = from_address]
            ELSE mm
  IN IF value = NoValue THEN m1
     ELSE IF Resolves(m1.pending_command, value) /\ value.error = ""
     THEN [m1 EXCEPT !.last_value = value,
                     !.last_result = value,
                     !.pending_command = NoCommand,
                     !.wallet_address = IF value.address # "" THEN value.address ELSE @,
                     !.wallet_chain = IF value.chainId # None THEN value.chainId ELSE @]
     ELSE [m1 EXCEPT !.last_value = value]

\* Value handling that accepts the answer without caching what it carries.
_receive_NoCache(mm, value) ==
  LET from_address == mm.metamask.from
      m1 == IF from_address # "" /\ mm.wallet_address = ""
            THEN [mm EXCEPT !.wallet_address = from_address]
            ELSE mm
  IN IF value = NoValue THEN m1
     ELSE IF Resolves(m1.pending_command, value)
     THEN [m1 EXCEPT !.last_value = value,
                     !.last_result = value,
                     !.pending_command = NoCommand]
     ELSE [m1 EXCEPT !.last_value = value]

\* _render_wallet_section from its start to the status columns: the defaults
\* and the handling of the component's value.
_receive(mm, value) ==
  LET from_address == mm.metamask.from
      m1 == IF from_address # "" /\ mm.wallet_address = ""
            THEN [mm EXCEPT !.wallet_address = from_address]
            ELSE mm
  IN IF value = NoValue THEN m1
     ELSE IF Resolves(m1.pending_command, value)
     THEN [m1 EXCEPT !.last_value = value,
                     !.last_result = value,
                     !.pending_command = NoCommand,
                     !.wallet_address = IF value.address # "" THEN value.address ELSE @,
                     !.wallet_chain = IF value.chainId # None THEN value.chainId ELSE @]
     ELSE [m1 EXCEPT !.last_value = value]

\* The accessors of the SBT contract: has_fn / tid_fn say whether the ABI
\* has hasSbt / tokenIdOf; the other fields are what a call() gives, a value
\* or the class of the exception raised.
CallFaults == {"ContractLogicError", "Web3Exception", "Exception"}
ZeroAddress == "0x0000000000000000000000000000000000000000"
Contracts ==
  [has_fn : BOOLEAN, hasSbt : {"True", "False"} \cup CallFaults,
   tid_fn : BOOLEAN, tokenIdOf : {"7"} \cup CallFaults,
   ownerOf : {"0xAa", ZeroAddress, "None"} \cup CallFaults]
Deployed == [has_fn |-> TRUE, hasSbt |-> "True", tid_fn |-> TRUE, tokenIdOf |-> "7",
             ownerOf |-> "0xAa"]

\* Two browser sessions, each with its own st.session_state.
Sessions == {1, 2}
NoSessions == [s \in Sessions |-> [state |-> [a \in Accounts |-> None], issued |-> <<>>]]

InitSession ==
  /\ session_state = [a \in Accounts |-> None]
  /\ txCount = [a \in Accounts |-> 0]
  /\ pendingCount = [a \in Accounts |-> 0]
  /\ calls = 0
  /\ call = NoCall
  /\ inputs = NoInputs
  /\ result = EmptyDict
  /\ alloc = NoAlloc
  /\ returned = [a \in Accounts |-> None]
  /\ confirmedSince = [a \in Accounts |-> FALSE]
  /\ submitted = [a \in Accounts |-> {}]
  /\ quote = NoQuote
  /\ sessions = NoSessions
  /\ InitPage

Init ==
  /\ env \in SessionEnvs
  /\ \E c \in SessionConfigs :
       /\ private_keys = c.private_keys
       /\ role_addresses = c.role_addresses
  /\ role \in SessionRoles
  /\ contract = Deployed
  /\ InitSession

\* ------------------------------------------------------------ environment
\* No tool invocation is being rendered: each interaction runs the page top
\* to bottom, and what a handler returned is gone when the run ends.
Idle == call = NoCall

\* The run that rendered a tool's result ends.
EndInteraction ==
  /\ ~Idle
  /\ call' = NoCall
  /\ inputs' = NoInputs
  /\ result' = EmptyDict
  /\ alloc' = NoAlloc
  /\ UNCHANGED <<session_state, calls, returned, confirmedSince, submitted,
                 role, role_addresses, quote, sideVars>>
  /\ UNCHANGED chainVars
  /\ UNCHANGED configVars
  /\ UNCHANGED pageVars

\* Another wallet or process using the same account gets a transaction
\* into the node's pool.
ExternalSubmit(a) ==
  /\ Idle
  /\ calls < MaxCalls
  /\ a = Lower(WalletAddress)
  /\ pendingCount[a] < MaxCount
  /\ pendingCount' = [pendingCount EXCEPT ![a] = @ + 1]
  /\ UNCHANGED <<txCount, role, role_addresses, quote, sideVars>>
  /\ UNCHANGED sessionVars
  /\ UNCHANGED configVars
  /\ UNCHANGED pageVars

\* The chain includes the oldest pending transaction of the account.
Mine(a) ==
  /\ Idle
  /\ calls < MaxCalls
  /\ txCount[a] < pendingCount[a]
  /\ txCount' = [txCount EXCEPT ![a] = @ + 1]
  /\ confirmedSince' = [confirmedSince EXCEPT ![a] = TRUE]
  /\ UNCHANGED <<pendingCount, role, role_addresses, quote, sideVars, session_state,
                 calls, call, inputs, result,
                 alloc, returned, submitted>>
  /\ UNCHANGED configVars
  /\ UNCHANGED pageVars

\* What the node can answer to a submission of nonce n from account a.
Events(a, n, tc, pc) ==
  {Event("sign_raise", SignText, FALSE, None),
   Event("other", ConnectionText, FALSE, None),
   Event("web3", UnderpricedText, FALSE, None)}
  \cup (IF tc[a] <= n /\ n <= pc[a] /\ n < MaxCount
        THEN {Event("receipt", NoText, TRUE, 1)}
        ELSE {})
  \cup (IF tc[a] <= n /\ n < pc[a]
        THEN {Event("web3", AlreadyKnownText, FALSE, None),
              Event("web3", ReplacementText, FALSE, None)}
        ELSE {})
  \cup (IF n < tc[a] THEN {Event("web3", NonceTooLowText, FALSE, None)} ELSE {})
  \cup (IF n = pc[a] /\ n < MaxCount
        THEN {Event("web3", TimeoutText, TRUE, None)}
        ELSE {})

TxCountAfter(tc, a, n, ev) ==
  IF ev.kind = "receipt" THEN [tc EXCEPT ![a] = n + 1] ELSE tc

PendingCountAfter(pc, a, n, ev) ==
  IF ev.accepted THEN [pc EXCEPT ![a] = Max(@, n + 1)] ELSE pc

\* The counts get_transaction_count can report: the pending-inclusive count,
\* possibly stale (the node has not indexed the newest submissions), or a
\* failure; the confirmed count or a failure.
NotRead == -4
NonceReads(a) ==
  {<<p, NotRead>> : p \in txCount[a]..pendingCount[a]}
  \cup {<<RpcError, c>> : c \in {RpcError, txCount[a]}}

\* The quotes of one environment kept for every later invocation.
FeeQuotes_Cached ==
  {_fee_params(b, b, "1", "0", Unset) : b \in SessionBlocks}

\* The quotes _fee_params can return in the current environment; its two
\* reads of the latest block, made back to back, see the same block.
FeeQuotes ==
  {_fee_params(b, b, env.gas_price_gwei, env.prio_env, env.max_env) :
     b \in SessionBlocks}

\* ------------------------------------------------------------ write tools
Words(prefix, text) == prefix \o text

\* The tool returns res.  allocated tells whether _next_nonce ran, nn is what
\* it returned for the reads <<pr, cr>>, quotes are the fee quotes made,
\* attempts the runs of _sign_and_send, tc2 and pc2 the chain afterwards.
Return(fn, from, allocated, nn, pr, cr, quotes, attempts, res, tc2, pc2) ==
  LET a == Lower(from)
      mined == \E i \in 1..Len(attempts) : attempts[i].ev.kind = "receipt"
  IN
  /\ calls' = calls + 1
  /\ call' = [fn |-> fn, from |-> from, allocs |-> IF allocated THEN 1 ELSE 0,
              quotes |-> quotes, attempts |-> attempts]
  /\ result' = res
  /\ session_state' = IF allocated THEN nn.state ELSE session_state
  /\ alloc' = IF allocated
              THEN [key |-> a, pendingRead |-> pr,
                    confirmedRead |-> cr, last |-> session_state[a],
                    prev |-> returned[a],
                    raised |-> nn.raised, nonce |-> nn.nonce, reads |-> nn.reads,
                    confirmedBetween |-> confirmedSince[a]]
              ELSE alloc
  /\ returned' = IF allocated /\ ~nn.raised
                 THEN [returned EXCEPT ![a] = nn.nonce]
                 ELSE returned
  /\ confirmedSince' = IF allocated /\ ~nn.raised
                       THEN [confirmedSince EXCEPT ![a] = mined]
                       ELSE confirmedSince
  /\ submitted' = IF \E i \in 1..Len(attempts) : Submits(attempts[i].ev)
                  THEN [submitted EXCEPT ![a] = @ \cup {nn.nonce}]
                  ELSE submitted
  /\ txCount' = tc2
  /\ pendingCount' = pc2
  /\ UNCHANGED <<role, role_addresses, quote, sideVars>>
  /\ UNCHANGED configVars
  /\ UNCHANGED pageVars

\* A tool that returns before touching the chain or the session.
ReturnEarly(fn, from, res) ==
  Return(fn, from, FALSE, NoAlloc, RpcError, RpcError, <<>>, <<>>, res,
         txCount, pendingCount)

Attempt(tx, ev) == [tx |-> tx, ev |-> ev, sent |-> _sign_and_send(tx, ev)]

\* Every fee amount a quote of the transaction sessions can hold.
SessionFeeAmounts ==
  UNION {LET f == _fee_params(b, b, e.gas_price_gwei, e.prio_env, e.max_env)
         IN {f.maxFeePerGas, f.maxPriorityFeePerGas, f.gasPrice} \ {None} :
           b \in SessionBlocks, e \in SessionEnvs}

\* int(amount * 1.15) for those amounts, computed once.
BumpFeeOf == [x \in SessionFeeAmounts |-> BumpFee(x)]

\* The bump with the priority fee left as it was.
Bumped_OnlyMaxFee(fees) ==
  IF "maxFeePerGas" \in fees.keys
  THEN [fees EXCEPT !.maxFeePerGas = BumpFeeOf[fees.maxFeePerGas]]
  ELSE [fees EXCEPT !.gasPrice = BumpFeeOf[fees.gasPrice]]

\* fees_bumped of issueScore_tool and revokeScore_tool, written over tx.
Bumped(fees) ==
  IF "maxFeePerGas" \in fees.keys
  THEN [fees EXCEPT !.maxFeePerGas = BumpFeeOf[fees.maxFeePerGas],
                    !.maxPriorityFeePerGas = BumpFeeOf[fees.maxPriorityFeePerGas]]
  ELSE [fees EXCEPT !.gasPrice = BumpFeeOf[fees.gasPrice]]

\* A resend after any failed submission.
WantsRetry_AnyError(sent) == "error" \in sent.keys

\* The retry test of issueScore_tool and revokeScore_tool (the outer
\* `if "error" in sent` and the inner status / text test).
WantsRetry(sent) ==
  /\ "error" \in sent.keys
  /\ (sent.status = "underpriced" \/ Contains(sent.error, <<"underpriced">>))

\* The server-signed part of a write tool, from the fee quote and the nonce
\* to the returned ToolResult.  feesFirst: the tool quotes fees before it
\* allocates the nonce (issueScore, revokeScore) or after it (deposit, inside
\* the build_transaction argument).  withRetry: the tool has the underpriced
\* retry.  prefix: the words the tool's handler puts before an exception.
ServerSigned(fn, from, argument, value, feesFirst, withRetry, prefix) ==
  \E fees \in FeeQuotes, rd \in NonceReads(Lower(from)) :
    LET a == Lower(from)
        pr == rd[1]
        cr == rd[2]
        nn == _next_nonce(session_state, from, pr, cr)
        feesRaise == "raise" \in fees.keys
        rpcFailed == tool_error(Words(prefix, ConnectionText))
        feesFailed == tool_error(Words(prefix, <<"invalid", "literal", "for", "int()">>))
        tx == [from |-> from, nonce |-> nn.nonce, fn |-> fn, argument |-> argument,
               value |-> value, fees |-> fees]
    IN
    IF feesFirst /\ feesRaise
    THEN Return(fn, from, FALSE, nn, pr, cr, <<fees>>, <<>>, feesFailed,
                txCount, pendingCount)
    ELSE IF nn.raised
    THEN Return(fn, from, TRUE, nn, pr, cr, IF feesFirst THEN <<fees>> ELSE <<>>,
                <<>>, rpcFailed, txCount, pendingCount)
    ELSE IF feesRaise
    THEN Return(fn, from, TRUE, nn, pr, cr, <<fees>>, <<>>, feesFailed,
                txCount, pendingCount)
    ELSE
      \E ev1 \in Events(a, nn.nonce, txCount, pendingCount) :
        LET first == Attempt(tx, ev1)
            tc1 == TxCountAfter(txCount, a, nn.nonce, ev1)
            pc1 == PendingCountAfter(pendingCount, a, nn.nonce, ev1)
            finish(attempts, tc2, pc2) ==
              LET sent == attempts[Len(attempts)].sent
              IN Return(fn, from, TRUE, nn, pr, cr, <<fees>>, attempts,
                        IF "error" \in sent.keys
                        THEN tool_error(sent.error)
                        ELSE tool_success(sent),
                        tc2, pc2)
        IN
        IF withRetry /\ WantsRetry(first.sent)
        THEN \E ev2 \in Events(a, nn.nonce, tc1, pc1) :
               LET tx2 == [tx EXCEPT !.fees = Bumped(fees)]
               IN finish(<<first, Attempt(tx2, ev2)>>,
                         TxCountAfter(tc1, a, nn.nonce, ev2),
                         PendingCountAfter(pc1, a, nn.nonce, ev2))
        ELSE finish(<<first>>, tc1, pc1)

\* build_llm_toolkit: private_key is the active role's key, else PRIVATE_KEY.
effective_private_key ==
  IF role = "Read-only" THEN NoKey ELSE private_keys[role]

derived_private_key ==
  IF effective_private_key # NoKey THEN effective_private_key
  ELSE private_keys["Owner"]

NotConfiguredText == <<"PRIVATE_KEY", "not", "configured.">>
InvalidWalletText == <<"Invalid", "wallet", "address", "supplied.">>
NotOwnerText == <<"PRIVATE_KEY", "address", "is", "not", "the", "contract", "owner">>
NotMintedText == <<"SBT", "not", "minted", "for", "this", "wallet;">>
UnexpectedPrefix == <<"Unexpected", "error:">>
DeriveText == <<"Unable", "to", "derive", "signer", "from", "private", "key:">>

\* issueScore_tool(wallet_address, score_value)
issueScore_tool ==
  /\ Idle
  /\ calls < MaxCalls
  /\ inputs' = NoInputs
  /\ IF derived_private_key = NoKey
     THEN ReturnEarly("issueScore", "", tool_error(NotConfiguredText))
     ELSE IF FromKey(derived_private_key) = ""
     THEN \/ ReturnEarly("issueScore", "", tool_error(InvalidWalletText))
          \/ ReturnEarly("issueScore", "", tool_error(DeriveText))
     ELSE \/ ReturnEarly("issueScore", "", tool_error(InvalidWalletText))
          \/ ReturnEarly("issueScore", FromKey(derived_private_key),
                         tool_error(NotOwnerText))
          \/ ServerSigned("issueScore", FromKey(derived_private_key), NoAmount, NoAmount,
                          TRUE, TRUE, UnexpectedPrefix)

\* revokeScore_tool(wallet_address)
revokeScore_tool ==
  /\ Idle
  /\ calls < MaxCalls
  /\ inputs' = NoInputs
  /\ IF derived_private_key = NoKey
     THEN ReturnEarly("revokeScore", "", tool_error(NotConfiguredText))
     ELSE IF FromKey(derived_private_key) = ""
     THEN \/ ReturnEarly("revokeScore", "", tool_error(InvalidWalletText))
          \/ ReturnEarly("revokeScore", "", tool_error(DeriveText))
     ELSE \/ ReturnEarly("revokeScore", "", tool_error(InvalidWalletText))
          \/ ReturnEarly("revokeScore", FromKey(derived_private_key),
                         tool_error(NotOwnerText))
          \/ ReturnEarly("revokeScore", FromKey(derived_private_key),
                         tool_error(NotMintedText))
          \/ ServerSigned("revokeScore", FromKey(derived_private_key), NoAmount, NoAmount,
                          TRUE, TRUE, UnexpectedPrefix)

\* build_lending_pool_toolkit: the keys of the three roles.
owner_key ==
  IF private_keys["Owner"] # NoKey THEN private_keys["Owner"]
  ELSE derived_private_key
lender_key == private_keys["Lender"]
borrower_key == private_keys["Borrower"]

\* _acct_for_key(key): the key's address, or "" for None.
_acct_for_key(key) == IF key = NoKey THEN "" ELSE FromKey(key)

owner_address ==
  IF role_addresses["Owner"] # "" THEN role_addresses["Owner"]
  ELSE _acct_for_key(owner_key)
lender_address ==
  IF role_addresses["Lender"] # "" THEN role_addresses["Lender"]
  ELSE _acct_for_key(lender_key)
borrower_address ==
  IF role_addresses["Borrower"] # "" THEN role_addresses["Borrower"]
  ELSE _acct_for_key(borrower_key)

\* Amounts are decimal numbers held in hundredths; NotANumber is an amount
\* Decimal(str(amount)) rejects.
NotANumber == -5
Amounts == {NotANumber, 50, 200}
native_decimals == 18

\* `except Exception: return int(amount)`, taken for every amount.
_to_token_units_Int(hundredths) ==
  [digits |-> hundredths \div 100, zeros |-> 0]

\* _to_token_units(amount, use_native=True) = int(amount * 10^native_decimals),
\* held as the decimal digits of the hundredths followed by `zeros` zeros.
_to_token_units(hundredths) ==
  [digits |-> hundredths, zeros |-> native_decimals - 2]

\* The request built without the sender.
_metamask_tx_request_NoFrom(fn, argument, value_wei, from_address) ==
  [NoTx EXCEPT !.fn = fn, !.argument = argument, !.value = value_wei]

\* _metamask_tx_request(pool_contract, fn, [amt], value_wei, from_address)
_metamask_tx_request(fn, argument, value_wei, from_address) ==
  [NoTx EXCEPT !.fn = fn, !.argument = argument, !.value = value_wei, !.from = from_address]

\* _metamask_success(tx_req, hint, from_addr)
_metamask_success(tx_req) ==
  tool_success([EmptyDict EXCEPT !.keys = {"metamask"}, !.metamask = tx_req])

InvalidAmountText == <<"Invalid", "amount", "supplied;">>
LimitText == <<"Amount", "exceeds", "1", "USDC", "test", "limit", "for", "safety.">>
NoLenderText == <<"Lender", "wallet", "not", "configured.">>
NoOwnerText == <<"Owner", "wallet", "not", "configured.">>
NoBorrowerText == <<"Borrower", "wallet", "not", "configured.">>
InvalidBorrowerText == <<"Invalid", "borrower", "address", "supplied.">>
InvalidPrincipalText == <<"Invalid", "principal", "supplied;">>
PrincipalLimitText == <<"Principal", "exceeds", "1", "USDC", "test", "limit", "for", "safety.">>
DepositPrefix == <<"deposit", "failed:">>
WithdrawPrefix == <<"withdraw", "failed:">>
OpenLoanPrefix == <<"openLoan", "failed:">>
RepayPrefix == <<"repay", "failed:">>

\* The LendingPool tools the tool page offers to the active role.
read_only_tools == {"availableLiquidity", "lenderBalance", "isBanned"}
owner_tools == {"approveUSDC", "withdraw", "openLoan", "checkDefaultAndBan",
                "setDepositLockSeconds", "setTrustMintSbt", "setMinScoreToBorrow",
                "unban", "getLoan"}
lender_tools == {"approveUSDC", "deposit", "withdraw"}
borrower_tools == {"approveUSDC", "repay", "getLoan"}
allowed_names ==
  read_only_tools
  \cup (IF role = "Owner" THEN owner_tools ELSE {})
  \cup (IF role = "Lender" THEN lender_tools ELSE {})
  \cup (IF role = "Borrower" THEN borrower_tools ELSE {})

\* The limit set at 10.
OverLimit_Ten(hundredths) == hundredths > 1000

\* `if amt_decimal > Decimal("1")`, for an amount in hundredths.
OverLimit(hundredths) == hundredths > 100

\* The signer test with the assigned address asked first.
SignerPath_AddressFirst(key, address) ==
  IF address # "" THEN "browser"
  ELSE IF _acct_for_key(key) # "" /\ key # NoKey THEN "server"
  ELSE "none"

\* `signer = _acct_for_key(key); if signer and key: ...; if address: ...;
\* return tool_error(...)`, the same in every write tool of the pool.
SignerPath(key, address) ==
  IF _acct_for_key(key) # "" /\ key # NoKey THEN "server"
  ELSE IF address # "" THEN "browser"
  ELSE "none"

\* What a write tool of the pool does once its arguments are accepted.
\* value: the "value" of the transaction; feesFirst as in ServerSigned.
PoolWrite(fn, key, address, argument, value, feesFirst, prefix, notConfigured) ==
  IF SignerPath(key, address) = "server"
  THEN ServerSigned(fn, _acct_for_key(key), argument, value, feesFirst, FALSE, prefix)
  ELSE IF SignerPath(key, address) = "browser"
  THEN ReturnEarly(fn, "",
                   _metamask_success(_metamask_tx_request(fn, argument, value, address)))
  ELSE ReturnEarly(fn, "", tool_error(notConfigured))

\* deposit_tool(amount)
deposit_tool ==
  /\ Idle
  /\ calls < MaxCalls
  /\ "deposit" \in allowed_names
  /\ \E amount \in Amounts :
       /\ inputs' = [NoInputs EXCEPT !.amount = amount]
       /\ IF amount = NotANumber
          THEN ReturnEarly("deposit", "", tool_error(InvalidAmountText))
          ELSE IF OverLimit(amount)
          THEN ReturnEarly("deposit", "", tool_error(LimitText))
          ELSE PoolWrite("deposit", lender_key, lender_address,
                         _to_token_units(amount), _to_token_units(amount), FALSE, DepositPrefix, NoLenderText)

\* withdraw_tool(amount)
withdraw_tool ==
  /\ Idle
  /\ calls < MaxCalls
  /\ "withdraw" \in allowed_names
  /\ \E amount \in Amounts :
       /\ inputs' = [NoInputs EXCEPT !.amount = amount]
       /\ IF amount = NotANumber
          THEN ReturnEarly("withdraw", "", tool_error(InvalidAmountText))
          ELSE IF OverLimit(amount)
          THEN ReturnEarly("withdraw", "", tool_error(LimitText))
          ELSE PoolWrite("withdraw", lender_key, lender_address,
                         _to_token_units(amount), NoAmount,
                         FALSE, WithdrawPrefix, NoLenderText)

\* openLoan_tool(borrower_address, principal, term_seconds)
openLoan_tool ==
  /\ Idle
  /\ calls < MaxCalls
  /\ "openLoan" \in allowed_names
  /\ \E principal \in Amounts, address_ok \in BOOLEAN :
       /\ inputs' = [amount |-> principal, address_ok |-> address_ok]
       /\ IF ~address_ok
          THEN ReturnEarly("openLoan", "", tool_error(InvalidBorrowerText))
          ELSE IF principal = NotANumber
          THEN ReturnEarly("openLoan", "", tool_error(InvalidPrincipalText))
          ELSE IF OverLimit(principal)
          THEN ReturnEarly("openLoan", "", tool_error(PrincipalLimitText))
          ELSE PoolWrite("openLoan", owner_key, owner_address,
                         _to_token_units(principal), NoAmount,
                         TRUE, OpenLoanPrefix, NoOwnerText)

\* repay_tool(amount)
repay_tool ==
  /\ Idle
  /\ calls < MaxCalls
  /\ "repay" \in allowed_names
  /\ \E amount \in Amounts :
       /\ inputs' = [NoInputs EXCEPT !.amount = amount]
       /\ IF amount = NotANumber
          THEN ReturnEarly("repay", "", tool_error(InvalidAmountText))
          ELSE IF OverLimit(amount)
          THEN ReturnEarly("repay", "", tool_error(LimitText))
          ELSE PoolWrite("repay", borrower_key, borrower_address,
                         _to_token_units(amount), _to_token_units(amount), FALSE, RepayPrefix, NoBorrowerText)

\* The read tools of the two toolkits: hasSbt and getScore are offered to
\* every role, those of the pool to the roles whose list names them.
sbt_read_tools == {"hasSbt", "getScore"}
pool_read_tools == {"availableLiquidity", "lenderBalance", "getLoan", "isBanned"}
read_tool ==
  /\ Idle
  /\ calls < MaxCalls
  /\ inputs' = NoInputs
  /\ \E name \in sbt_read_tools \cup (pool_read_tools \cap allowed_names) :
       \/ ReturnEarly(name, "", tool_success(EmptyDict))
       \/ ReturnEarly(name, "", tool_error(ConnectionText))

\* The "Select role for available tools" box of the tool page.
SelectRole ==
  /\ Idle
  /\ calls < MaxCalls
  /\ role' \in SessionRoles \ {role}
  /\ UNCHANGED <<role_addresses, quote, sideVars>>
  /\ UNCHANGED chainVars
  /\ UNCHANGED sessionVars
  /\ UNCHANGED configVars
  /\ UNCHANGED pageVars

Tool == issueScore_tool \/ revokeScore_tool \/ deposit_tool

Next ==
  \/ Tool
  \/ EndInteraction
  \/ SelectRole
  \/ \E a \in Accounts : ExternalSubmit(a)
  \/ \E a \in Accounts : Mine(a)

Spec == Init /\ [][Next]_vars

\* ------------------------------------------------- fee strategy on its own
\* _fee_params applied to every pair of latest blocks in every environment.
FeeInit ==
  /\ env \in QuoteEnvs
  /\ private_keys = NoKeys
  /\ role_addresses = Unassigned
  /\ role = "Read-only"
  /\ contract = Deployed
  /\ InitSession

QuoteFee ==
  /\ \E latest1 \in Blocks, latest2 \in Blocks :
       quote' = [made |-> TRUE, latest1 |-> latest1, latest2 |-> latest2,
                 fees |-> _fee_params(latest1, latest2, env.gas_price_gwei,
                                      env.prio_env, env.max_env)]
  /\ UNCHANGED <<role, role_addresses, sideVars>>
  /\ UNCHANGED chainVars
  /\ UNCHANGED sessionVars
  /\ UNCHANGED configVars
  /\ UNCHANGED pageVars

FeeNext == QuoteFee

SpecFee == FeeInit /\ [][FeeNext]_vars
\* ------------------------------------------------- wallet bridge on its own
\* A Lender without a key whose address the browser wallet assigned: the
\* LendingPool write tools answer with a MetaMask request.
BridgeInit ==
  /\ env = Env("1", "0", Unset)
  /\ private_keys = NoKeys
  /\ role_addresses = [Unassigned EXCEPT !["Lender"] = WalletAddress]
  /\ role = "Lender"
  /\ contract = Deployed
  /\ InitSession

BridgeFrame ==
  /\ UNCHANGED <<role, role_addresses, quote, sideVars>>
  /\ UNCHANGED chatVars
  /\ UNCHANGED chainVars
  /\ UNCHANGED sessionVars
  /\ UNCHANGED configVars

\* command, command_payload and command_sequence of the call of
\* wallet_command: the name and sequence of the pending command, and the
\* payload {"tx_request": tx_req, "action": action}, with "from" when the
\* request names a signer, which is assigned over the pending one's.
command_args(mm) ==
  [command |-> mm.pending_command.command,
   command_payload |-> IF mm.metamask.from # "" THEN "tx_request,from" ELSE "tx_request",
   command_sequence |-> mm.pending_command.sequence]

\* One more run of the page, for the key and with the button given, in
\* which the section is rendered from state mm.
Ran(k, button, mm) ==
  /\ runs < MaxRuns
  /\ runs' = runs + 1
  /\ interaction' = [key |-> k, button |-> button, sent |-> command_args(mm)]

\* The tool a bridge key belongs to.
SelectedTool(k) == IF k = "pool_deposit" THEN "deposit" ELSE "withdraw"

\* _render_tool_runner, "Run MCP tool" for a tool whose handler returns a
\* MetaMask request: the request is stored under the key and the wallet
\* section is rendered.  The button is not reached while the key has a state.
RunMetaMaskTool(k) ==
  /\ ~mm_state[k].present
  /\ lender_address # ""
  /\ LET parsed == _metamask_success(_metamask_tx_request(
                     SelectedTool(k), _to_token_units(50), _to_token_units(50),
                     lender_address))
         mm == [NoState EXCEPT !.present = TRUE, !.metamask = parsed.metamask]
     IN /\ mm_state' = [mm_state EXCEPT ![k] = _receive(mm, component_value[k])]
        /\ Ran(k, "run", mm)
  /\ UNCHANGED <<component_value, created, superseded>>
  /\ BridgeFrame

\* A run of _render_wallet_section in which no button is pressed.
Render(k) ==
  /\ mm_state[k].present
  /\ LET mm == _receive(mm_state[k], component_value[k])
     IN /\ mm_state' = [mm_state EXCEPT ![k] = mm]
        /\ superseded' = [superseded EXCEPT
                            ![k] = IF mm.pending_command = NoCommand THEN None ELSE @]
  /\ Ran(k, "none", mm_state[k])
  /\ UNCHANGED <<component_value, created>>
  /\ BridgeFrame

\* A run in which one of the three command buttons is pressed: the value of
\* the component is handled first, then the command replaces the pending
\* one with sequence int(time() * 1000), a reading of the wall clock.
Press(k, command, payload) ==
  /\ mm_state[k].present
  /\ \E now \in Times :
       LET mm == _receive(mm_state[k], component_value[k])
           outstanding == mm.pending_command
       IN /\ mm_state' = [mm_state EXCEPT
                            ![k] = [mm EXCEPT !.pending_command =
                                      [command |-> command, payload |-> payload,
                                       sequence |-> now]]]
          /\ created' = [created EXCEPT ![k] = Max(@, now)]
          /\ superseded' = [superseded EXCEPT
                              ![k] = IF /\ command = "send_transaction"
                                        /\ outstanding.command = "send_transaction"
                                     THEN outstanding.sequence
                                     ELSE None]
  /\ Ran(k, command, mm_state[k])
  /\ UNCHANGED component_value
  /\ BridgeFrame

ConnectWallet(k) == Press(k, "connect", "{}")

SwitchNetwork(k) == Press(k, "switch_network", "require_chain_id")

\* send_disabled = tx_req is None
SendTransaction(k) ==
  /\ mm_state[k].metamask # NoTx
  /\ Press(k, "send_transaction", "tx_request")

\* "Clear MetaMask state": the key's state is popped.
ClearMetaMaskState(k) ==
  /\ mm_state[k].present
  /\ mm_state' = [mm_state EXCEPT ![k] = NoState]
  /\ superseded' = [superseded EXCEPT ![k] = None]
  /\ Ran(k, "clear", mm_state[k])
  /\ UNCHANGED <<component_value, created>>
  /\ BridgeFrame

\* The browser component sets a value.  Only the component of the section on
\* the page, the one of the tool selected in the runner, is there to do so.
wallet_command(k) ==
  /\ mm_state[k].present
  /\ interaction.key = k
  /\ \E v \in BridgeValues \ {component_value[k]} :
       component_value' = [component_value EXCEPT ![k] = v]
  /\ UNCHANGED <<mm_state, interaction, runs, created, superseded>>
  /\ BridgeFrame

BridgeNext ==
  \E k \in BridgeKeys :
    \/ RunMetaMaskTool(k)
    \/ Render(k)
    \/ ConnectWallet(k)
    \/ SwitchNetwork(k)
    \/ SendTransaction(k)
    \/ ClearMetaMaskState(k)
    \/ wallet_command(k)

SpecBridge == BridgeInit /\ [][BridgeNext]_vars

\* ---------------------------------------------- role authorization on its own
\* Every configuration of the three keys (unset, usable, unusable) and of the
\* three assigned addresses, under every active role; one tool is run.
SignerKeys ==
  {[Owner |-> o, Lender |-> l, Borrower |-> b] :
     o \in {NoKey, "keyA", "bad"}, l \in {NoKey, "keyB", "bad"},
     b \in {NoKey, "keyB", "bad"}}

SignerInit ==
  /\ env = Env("1", "0", Unset)
  /\ private_keys \in SignerKeys
  /\ role_addresses \in [AssignableRoles -> {"", WalletAddress}]
  /\ role \in Roles
  /\ contract = Deployed
  /\ InitSession

\* The first interaction of a session: one tool of the page is run.
SignerNext ==
  \/ calls = 0 /\ issueScore_tool
  \/ calls = 0 /\ revokeScore_tool
  \/ calls = 0 /\ deposit_tool
  \/ calls = 0 /\ withdraw_tool
  \/ calls = 0 /\ openLoan_tool
  \/ calls = 0 /\ repay_tool
  \/ calls = 0 /\ read_tool
  \/ EndInteraction

SpecSigner == SignerInit /\ [][SignerNext]_vars

\* ------------------------------------------------------- hasSbt on its own
\* The payload of a hasSbt result; `keys` are the entries it has.
SbtPayload(has, strategy, keys, tid, owner) ==
  [keys |-> keys, success |-> FALSE, error |-> NoText, wallet |-> WalletAddress,
   hasSbt |-> has, strategy |-> strategy, tokenId |-> tid, owner |-> owner]

Web3ErrorText == <<"Web3", "error:">>
UnexpectedErrorText == <<"Unexpected", "error:">>
\* The exception left the handler.
Raised == [EmptyDict EXCEPT !.keys = {"raise"}]

\* The second strategy with a revert reported as any other Web3 error.
ownerOf_strategy_NoRevert(c) ==
  LET tid == IF c.tid_fn THEN c.tokenIdOf ELSE "int(wallet, 16)"
      fault == IF tid \in CallFaults THEN tid
               ELSE IF c.ownerOf \in CallFaults THEN c.ownerOf ELSE ""
  IN CASE fault = "" ->
            tool_success(SbtPayload(c.ownerOf \notin {"None", ZeroAddress},
                                    "ownerOf_fallback",
                                    {"wallet", "hasSbt", "strategy", "tokenId", "owner"},
                                    tid, c.ownerOf))
       [] fault \in {"ContractLogicError", "Web3Exception"} -> tool_error(Web3ErrorText)
       [] OTHER -> tool_error(UnexpectedErrorText)

\* `# Fallback via ownerOf(tokenId)`: the token id from tokenIdOf when the
\* ABI has it, else int(checksum_wallet, 16); then ownerOf(tid).call(), and
\* the except clauses in their order.
ownerOf_strategy(c) ==
  LET tid == IF c.tid_fn THEN c.tokenIdOf ELSE "int(wallet, 16)"
      fault == IF tid \in CallFaults THEN tid
               ELSE IF c.ownerOf \in CallFaults THEN c.ownerOf ELSE ""
  IN CASE fault = "" ->
            tool_success(SbtPayload(c.ownerOf \notin {"None", ZeroAddress},
                                    "ownerOf_fallback",
                                    {"wallet", "hasSbt", "strategy", "tokenId", "owner"},
                                    tid, c.ownerOf))
       [] fault = "ContractLogicError" ->
            tool_success(SbtPayload(FALSE, "ownerOf_revert",
                                    {"wallet", "hasSbt", "strategy"}, "", ""))
       [] fault = "Web3Exception" -> tool_error(Web3ErrorText)
       [] OTHER -> tool_error(UnexpectedErrorText)

\* hasSbt_tool(wallet_address) against contract c: the address check, the
\* preferred accessor when the ABI has it, whose ContractLogicError or
\* Web3Exception is passed over and whose other exceptions are not caught,
\* then the fallback.
hasSbt(c, address_ok) ==
  IF ~address_ok THEN tool_error(InvalidWalletText)
  ELSE IF c.has_fn /\ c.hasSbt \in {"True", "False"}
  THEN tool_success(SbtPayload(c.hasSbt = "True", "hasSbt",
                               {"wallet", "hasSbt", "strategy"}, "", ""))
  ELSE IF c.has_fn /\ c.hasSbt = "Exception" THEN Raised
  ELSE ownerOf_strategy(c)

hasSbt_tool ==
  /\ Idle
  /\ calls < MaxCalls
  /\ \E address_ok \in BOOLEAN :
       /\ inputs' = [NoInputs EXCEPT !.address_ok = address_ok]
       /\ ReturnEarly("hasSbt", "", hasSbt(contract, address_ok))

SbtInit ==
  /\ env = Env("1", "0", Unset)
  /\ private_keys = NoKeys
  /\ role_addresses = Unassigned
  /\ role = "Read-only"
  /\ contract \in Contracts
  /\ InitSession

SbtNext ==
  \/ hasSbt_tool
  \/ EndInteraction

SpecSbt == SbtInit /\ [][SbtNext]_vars

\* ------------------------------------------- two sessions against one chain
\* One store for every session.
StateKey_Shared(s) == 1

\* st.session_state is the store of the browser session the script runs for.
StateKey(s) == s

SharedSigner == "0xAa"

\* Session s runs _next_nonce(w3, addr) for the shared signer.
SessionAllocate(s) ==
  /\ Len(sessions[s].issued) < MaxCalls
  /\ \E rd \in NonceReads(Lower(SharedSigner)) :
       LET nn == _next_nonce(sessions[StateKey(s)].state, SharedSigner, rd[1], rd[2])
       IN /\ ~nn.raised
          /\ sessions' = [t \in Sessions |->
               [state |-> IF t = StateKey(s) THEN nn.state ELSE sessions[t].state,
                issued |-> IF t = s THEN Append(sessions[t].issued, nn.nonce)
                           ELSE sessions[t].issued]]
  /\ UNCHANGED <<role, role_addresses, quote, contract>>
  /\ UNCHANGED chainVars
  /\ UNCHANGED sessionVars
  /\ UNCHANGED configVars
  /\ UNCHANGED pageVars

\* Session s sends the transaction built with the nonce it was issued last;
\* the node takes it into its pool when the nonce is the next one it expects.
SessionSubmit(s) ==
  LET a == Lower(SharedSigner)
      issued == sessions[s].issued
  IN
  /\ issued # <<>>
  /\ issued[Len(issued)] = pendingCount[a]
  /\ pendingCount[a] < MaxCount
  /\ pendingCount' = [pendingCount EXCEPT ![a] = @ + 1]
  /\ UNCHANGED <<txCount, role, role_addresses, quote, sideVars>>
  /\ UNCHANGED sessionVars
  /\ UNCHANGED configVars
  /\ UNCHANGED pageVars

SessionsInit ==
  /\ env = Env("1", "0", Unset)
  /\ private_keys = [NoKeys EXCEPT !["Owner"] = "keyA"]
  /\ role_addresses = Unassigned
  /\ role = "Owner"
  /\ contract = Deployed
  /\ InitSession

SessionsNext ==
  \/ \E s \in Sessions : SessionAllocate(s)
  \/ \E s \in Sessions : SessionSubmit(s)
  \/ Mine(Lower(SharedSigner))

SpecSessions == SessionsInit /\ [][SessionsNext]_vars

\* ------------------------------------------------- tool-calling loop on its own
\* json.loads(args_payload), {} for a payload that does not parse.
\* The arguments with the payload handed on whether it parses or not.
Arguments_Unparsed(args) == args

\* `try: arguments = json.loads(args_payload) ... except json.JSONDecodeError:
\* arguments = {}`
Arguments(args) == IF args = "malformed" THEN "{}" ELSE "given"

\* The lookup with an answer that leaves the name out.
_invoke_NoName(tool_call) ==
  IF tool_call.name \notin function_map
  THEN [called |-> FALSE, raised |-> FALSE,
        output |-> tool_error(<<"Tool", "is", "not", "registered.">>)]
  ELSE [called |-> TRUE, raised |-> FALSE,
        output |-> CASE tool_call.does \in {"str", "dict"} -> HandlerResult
                     [] tool_call.does = "TypeError" -> tool_error(RejectedText)
                     [] OTHER -> tool_error(FaultText)]

\* The call of the handler with no try around it.
_invoke_NoCatch(tool_call) ==
  IF tool_call.name \notin function_map
  THEN [called |-> FALSE, raised |-> FALSE,
        output |-> tool_error(NotRegisteredText(tool_call.name))]
  ELSE [called |-> TRUE, raised |-> tool_call.does \in {"TypeError", "Exception"},
        output |-> HandlerResult]

\* One tool call of run_mcp_llm_conversation, from function_map.get to
\* tool_output: called tells whether the handler ran, raised whether an
\* exception left the statement.
_invoke(tool_call) ==
  IF tool_call.name \notin function_map
  THEN [called |-> FALSE, raised |-> FALSE,
        output |-> tool_error(NotRegisteredText(tool_call.name))]
  ELSE [called |-> TRUE, raised |-> FALSE,
        output |-> CASE tool_call.does = "str" -> HandlerResult
                     [] tool_call.does = "dict" -> tool_success(EmptyDict)
                     [] tool_call.does = "TypeError" -> tool_error(RejectedText)
                     [] OTHER -> tool_error(FaultText)]

\* message.model_dump() keeps the name and the arguments of each call.
model_dump(tcs) ==
  Message("assistant", "", "", EmptyDict,
          [i \in 1..Len(tcs) |->
             [id |-> tcs[i].id, name |-> tcs[i].name, args |-> tcs[i].args]])

\* The tool message with the id of the response's first call.
ToolMessageFor_FirstId(tcs, i, tool_output) ==
  [Message("tool", tcs[i].name, "", tool_output, NoCalls)
     EXCEPT !.tool_call_id = tcs[1].id]

\* {"role": "tool", "tool_call_id": tool_call.id, "name": tool_name,
\*  "content": tool_output} for call i of the response.
ToolMessageFor(tcs, i, tool_output) ==
  [Message("tool", tcs[i].name, "", tool_output, NoCalls)
     EXCEPT !.tool_call_id = tcs[i].id]

\* `for tool_call in tool_calls`, from call i on; an exception ends it.
RECURSIVE ForToolCalls(_, _, _)
ForToolCalls(tcs, i, acc) ==
  IF i > Len(tcs) \/ acc.raised THEN acc
  ELSE LET r == _invoke(tcs[i])
       IN ForToolCalls(tcs, i + 1,
            [msgs |-> IF r.raised THEN acc.msgs
                      ELSE Append(acc.msgs, ToolMessageFor(tcs, i, r.output)),
             invoked |-> IF r.called
                         THEN Append(acc.invoked,
                                     [index |-> i, name |-> tcs[i].name,
                                      arguments |-> Arguments(tcs[i].args),
                                      does |-> tcs[i].does])
                         ELSE acc.invoked,
             raised |-> r.raised])

ChatFrame ==
  /\ UNCHANGED <<role, role_addresses, quote, sideVars>>
  /\ UNCHANGED chainVars
  /\ UNCHANGED sessionVars
  /\ UNCHANGED configVars
  /\ UNCHANGED bridgeVars

\* A loop that gives up after two passes.
loop_continues_TwoPasses(n) == n < 2

\* `while True:` has no condition on the number of passes.
loop_continues(n) == TRUE

\* A pass of the loop over a response with tool calls, up to the request of
\* the next completion: the response is one of `lists`, and `bound` is how
\* many passes are explored.
Pass(lists, bound) ==
  /\ loop = "running"
  /\ loop_continues(turns)
  /\ turns < bound
  /\ \E tcs \in lists :
       LET done == ForToolCalls(tcs, 1,
                     [msgs |-> Append(messages, model_dump(tcs)),
                      invoked |-> <<>>, raised |-> FALSE])
       IN /\ messages' = done.msgs
          /\ invoked' = done.invoked
          /\ requested' = IF done.raised THEN requested ELSE done.msgs
          /\ requests' = IF done.raised THEN requests ELSE requests + 1
          /\ loop' = IF done.raised THEN "raised" ELSE "running"
  /\ turns' = turns + 1
  /\ UNCHANGED <<final_content, page>>
  /\ ChatFrame

ToolCallsPass == Pass(ToolCallLists, MaxTurns)

\* The branch without tool calls appending whatever the content is.
_final_AlwaysAppends(history, content) ==
  Append(history, Message("assistant", "", content, EmptyDict, NoCalls))

\* `if content: messages.append({"role": "assistant", "content": content})`
_final(history, content) ==
  IF content # ""
  THEN Append(history, Message("assistant", "", content, EmptyDict, NoCalls))
  ELSE history

\* The pass over a response without tool calls: the function returns.
FinalAnswer ==
  /\ loop = "running"
  /\ \E content \in Contents :
       /\ messages' = _final(messages, content)
       /\ final_content' = content
  /\ loop' = "returned"
  /\ UNCHANGED <<invoked, turns, requested, requests, page>>
  /\ ChatFrame

\* client.chat.completions.create raises: nothing in the function catches it.
CompletionFails ==
  /\ loop = "running"
  /\ loop' = "failed"
  /\ UNCHANGED <<messages, invoked, turns, final_content, requested, requests, page>>
  /\ ChatFrame

MissingText == <<"Missing", "required", "parameters:">>
MismatchPrefix == <<"Parameter", "mismatch:">>
FailedPrefix == <<"Tool", "execution", "failed:">>
CompletedText == <<"Tool", "completed">>

\* `try: result = handler(**inputs)` of the tool runner with its two except
\* clauses, and what the page shows afterwards.
_run_handler(does, given) ==
  CASE does = "TypeError" ->
         [kind |-> "error", does |-> does,
          text |-> Words(MismatchPrefix, RejectedText), result |-> EmptyDict,
          given |-> given]
    [] does = "Exception" ->
         [kind |-> "error", does |-> does,
          text |-> Words(FailedPrefix, FaultText), result |-> EmptyDict,
          given |-> given]
    [] OTHER ->
         [kind |-> "result", does |-> does, text |-> CompletedText,
          result |-> HandlerResult, given |-> given]

\* A parameter counts as given unless its value is None.
Truthy_NotNone(v) == v # "None"

\* bool(inputs.get(param))
Truthy(v) == v \notin {"None", "''", "0", "0.0", "False", "[]"}

\* missing = [param for param in required if not inputs.get(param)]
MissingParams(given) == {param \in RequiredParams : ~Truthy(given[param])}

\* The "Run MCP tool" button of the tool runner.
RunMcpTool ==
  /\ \E given \in FormInputs, does \in Behaviours :
       page' = IF MissingParams(given) # {}
               THEN [NoPage EXCEPT !.kind = "error", !.text = MissingText,
                                   !.given = given]
               ELSE _run_handler(does, given)
  /\ UNCHANGED <<messages, invoked, loop, turns, final_content, requested, requests>>
  /\ ChatFrame

ChatInit ==
  /\ env = Env("1", "0", Unset)
  /\ private_keys = NoKeys
  /\ role_addresses = Unassigned
  /\ role = "Read-only"
  /\ contract = Deployed
  /\ InitSession

ChatNext ==
  \/ ToolCallsPass
  \/ FinalAnswer
  \/ CompletionFails
  \/ RunMcpTool

SpecChat == ChatInit /\ [][ChatNext]_vars
\* ================================================================ properties
\* A step in which a tool invocation ran _next_nonce and got a nonce back.
Allocates == Idle /\ call'.allocs = 1 /\ ~alloc'.raised

\* The count the allocator worked from: the pending read, else the fallback.
Fetched(rec) ==
  IF rec.pendingRead # RpcError THEN rec.pendingRead ELSE rec.confirmedRead

\* An allocation record of an invocation that got a nonce.
Allocated == ~Idle /\ call.allocs = 1 /\ ~alloc.raised

\* C1: within one session the nonces _next_nonce returns for an account are
\* strictly increasing, whatever counts the chain reports between the calls.
C1_NoncesStrictlyIncrease ==
  [][Allocates /\ returned[alloc'.key] # None
       => alloc'.nonce > returned[alloc'.key]]_vars

\* A later allocation that was given a count no higher than the nonce
\* issued before (the reported count stayed or went down).
C1_Witness ==
  Allocated /\ alloc.prev # None /\ Fetched(alloc) <= alloc.prev
            /\ alloc.nonce > alloc.prev

\* C2: when the pending read succeeds with count P and the session's last
\* nonce for the account is L, the allocator returns L + 1 if L >= P and P
\* otherwise, records the returned value for that account and leaves the
\* entries of all other accounts as they were.
C2_AllocateContract ==
  [][Allocates /\ alloc'.pendingRead # RpcError
       => LET a == alloc'.key
              P == alloc'.pendingRead
              L == session_state[a]
              expected == IF L # None /\ L >= P THEN L + 1 ELSE P
          IN /\ alloc'.nonce = expected
             /\ session_state'[a] = expected
             /\ \A b \in Accounts \ {a} : session_state'[b] = session_state[b]]_vars

\* The bump case, with another account already holding a nonce.
C2_Witness ==
  /\ Allocated
  /\ alloc.pendingRead # RpcError
  /\ alloc.last # None
  /\ alloc.last >= alloc.pendingRead
  /\ alloc.nonce = alloc.last + 1
  /\ \E b \in Accounts \ {alloc.key} : session_state[b] # None

C4_FallbackToConfirmed ==
  [][Idle /\ call'.allocs = 1 /\ alloc'.pendingRead = RpcError
       => LET a == alloc'.key
              C == alloc'.confirmedRead
              L == session_state[a]
          IN /\ alloc'.reads = 2
             /\ C # RpcError =>
                  /\ ~alloc'.raised
                  /\ alloc'.nonce = (IF L # None /\ L >= C THEN L + 1 ELSE C)
                  /\ session_state'[a] = alloc'.nonce
             /\ C = RpcError =>
                  /\ alloc'.raised
                  /\ session_state' = session_state
                  /\ call'.attempts = <<>>
                  /\ ~result'.success]_vars

\* A fallback allocation on which the bump rule changed the confirmed count.
C4_Witness ==
  /\ Allocated
  /\ alloc.pendingRead = RpcError
  /\ alloc.confirmedRead # RpcError
  /\ alloc.last # None
  /\ alloc.last >= alloc.confirmedRead
  /\ alloc.nonce = alloc.last + 1
\* C5 as stated: when _sign_and_send classifies the first submission as
\* "underpriced", the tool resends exactly once with the same nonce and the
\* result the tool reports is the outcome of that resend.
C5_UnderpricedResentOnce ==
  ~Idle /\ Len(call.attempts) >= 1 /\ call.attempts[1].sent.status = "underpriced"
    => /\ Len(call.attempts) = 2
       /\ call.attempts[2].tx.nonce = call.attempts[1].tx.nonce
       /\ result.success <=> "error" \notin call.attempts[2].sent.keys

\* C6: a submission the node rejects as already known yields
\* {txHash: hash of the signed payload, status: "already_known"} with no error
\* field, is the last submission of the invocation, and the tool reports it
\* as a success carrying that hash and status.
C6_AlreadyKnownIsSuccess ==
  ~Idle =>
    \A i \in 1..Len(call.attempts) :
      LET at == call.attempts[i]
      IN at.ev.kind = "web3" /\ Contains(at.ev.text, AlreadyKnownText)
           => /\ at.sent.keys = {"txHash", "status"}
              /\ at.sent.txHash = Keccak(at.tx)
              /\ at.sent.status = "already_known"
              /\ i = Len(call.attempts)
              /\ result.success
              /\ "error" \notin result.keys
              /\ result.txHash = Keccak(at.tx)
              /\ result.status = "already_known"

\* An invocation whose submission the node already knew.
C6_Witness ==
  /\ ~Idle
  /\ Len(call.attempts) = 1
  /\ call.attempts[1].ev.text = AlreadyKnownText
  /\ result.success

\* C7: every submission of a tool invocation carries a nonce that no earlier
\* invocation of the session submitted for that account, and all submissions
\* of one invocation carry the one nonce it allocated; a nonce is resubmitted
\* only by the retry inside the same invocation.
C7_NonceSubmittedOnce ==
  [][Idle /\ ~Idle'
       => \A i \in 1..Len(call'.attempts) :
            Submits(call'.attempts[i].ev)
              => /\ call'.attempts[i].tx.nonce \notin submitted[Lower(call'.from)]
                 /\ call'.attempts[i].tx.nonce = alloc'.nonce
                 /\ call'.allocs = 1]_vars

\* A retried invocation on an account that an earlier invocation used.
C7_Witness ==
  /\ ~Idle
  /\ Len(call.attempts) = 2
  /\ Submits(call.attempts[1].ev)
  /\ Submits(call.attempts[2].ev)
  /\ Cardinality(submitted[Lower(call.from)]) >= 2

\* Whether a block read exposes a non-null base fee.
Exposes(latest) == latest.ok /\ latest.hasField /\ latest.baseFeePerGas # None

Eip1559Keys == {"maxFeePerGas", "maxPriorityFeePerGas"}
Returned(fees) == "raise" \notin fees.keys

\* C8: a fee quote that returns holds exactly maxFeePerGas and
\* maxPriorityFeePerGas if the latest block read by the support check
\* exposes a non-null base fee, and exactly gasPrice in every other case
\* (no field, null, failed read).
C8_FeeFieldsByBaseFee ==
  quote.made /\ Returned(quote.fees)
    => /\ quote.fees.keys = Eip1559Keys <=> Exposes(quote.latest1)
       /\ ~Exposes(quote.latest1) => quote.fees.keys = {"gasPrice"}
       /\ \A k \in {"maxFeePerGas", "maxPriorityFeePerGas", "gasPrice"} :
            k \in quote.fees.keys <=> quote.fees[k] # None

\* A legacy quote for a block whose base fee field is null.
C8_Witness ==
  quote.made /\ quote.latest1 = BlockNull /\ quote.fees.keys = {"gasPrice"}

\* The ceiling ARC_MAX_FEE_GWEI configures, or ParseError when it is unset,
\* empty or not an integer.
Ceiling == IF env.max_env \in {Unset, ""} THEN ParseError ELSE ParseInt(env.max_env)

\* C9 as stated: on the EIP-1559 path maxFeePerGas is the configured ceiling
\* when one parses, and otherwise 2 x baseFee + priorityFee for the base fee
\* the latest block exposes.
C9_MaxFeeFromBlockBaseFee ==
  quote.made /\ quote.fees.keys = Eip1559Keys
    => IF Ceiling # ParseError
       THEN quote.fees.maxFeePerGas = ToWeiGwei(Ceiling)
       ELSE \E b \in {quote.latest1, quote.latest2} :
              /\ Exposes(b)
              /\ quote.fees.maxFeePerGas =
                   2 * b.baseFeePerGas + quote.fees.maxPriorityFeePerGas

\* C9 amended: the base is the base fee of the block _fee_params reads again
\* after the support check or, when that read fails or exposes none, half
\* the configured legacy gas price in wei.
C9_MaxFeeAmended ==
  quote.made /\ quote.fees.keys = Eip1559Keys
    => LET base == IF Exposes(quote.latest2)
                   THEN quote.latest2.baseFeePerGas
                   ELSE ToWeiGwei(ParseInt(env.gas_price_gwei)) \div 2
       IN IF Ceiling # ParseError
          THEN quote.fees.maxFeePerGas = ToWeiGwei(Ceiling)
          ELSE quote.fees.maxFeePerGas =
                 2 * base + quote.fees.maxPriorityFeePerGas

\* A default ceiling computed from the block's base fee with an unparseable
\* override in place.
C9_Witness ==
  /\ quote.made
  /\ quote.fees.keys = Eip1559Keys
  /\ env.max_env = "abc"
  /\ Exposes(quote.latest2)
  /\ quote.fees.maxPriorityFeePerGas > 0
  /\ quote.fees.maxFeePerGas =
       2 * quote.latest2.baseFeePerGas + quote.fees.maxPriorityFeePerGas

\* floor(1.15 * x) in exact arithmetic.
Floor115(x) == 23 * (x \div 20) + (23 * (x % 20)) \div 20

Retried == ~Idle /\ Len(call.attempts) = 2

\* C10 as stated: the resubmission carries the nonce of the first attempt,
\* the allocator ran once, and each fee field is floor(1.15 x the original).
C10_RetryFloorBump ==
  Retried
    => LET t1 == call.attempts[1].tx
           t2 == call.attempts[2].tx
       IN /\ t2.nonce = t1.nonce
          /\ call.allocs = 1
          /\ t2.fees.keys = t1.fees.keys
          /\ \A k \in t1.fees.keys : t2.fees[k] = Floor115(t1.fees[k])

\* C10 amended: same nonce, one allocation, and each fee field is
\* int(fee * 1.15) in double precision, which is floor(1.15 x fee) or one
\* less.
C10_RetryBumpAmended ==
  Retried
    => LET t1 == call.attempts[1].tx
           t2 == call.attempts[2].tx
       IN /\ t2.nonce = t1.nonce
          /\ call.allocs = 1
          /\ t2.fees.keys = t1.fees.keys
          /\ \A k \in t1.fees.keys :
               t2.fees[k] \in {Floor115(t1.fees[k]) - 1, Floor115(t1.fees[k])}

\* A retry whose bumped ceiling is one below floor(1.15 x fee) and whose
\* bumped priority fee is positive.
C10_Witness ==
  /\ Retried
  /\ \E k \in call.attempts[1].tx.fees.keys :
       call.attempts[2].tx.fees[k] = Floor115(call.attempts[1].tx.fees[k]) - 1
\* The three commands of the wallet section.
Commands == {"connect", "switch_network", "send_transaction"}

\* A step that is a run of the wallet section for key k on a stored state.
SectionRun(k) ==
  /\ runs' # runs
  /\ interaction'.key = k
  /\ interaction'.button \in Commands \cup {"none"}

\* C11: in a run of the section with a command outstanding, the component's
\* value becomes last_result and clears the command if and only if its
\* commandSequence equals the command's sequence; any other value is stored
\* as last_value only, leaving last_result and the command as they were.
C11_ResultAcceptedIffSequenceMatches ==
  [][\A k \in BridgeKeys :
       LET p == mm_state[k].pending_command
           v == component_value[k]
           m == mm_state'[k]
           pressed == interaction'.button \in Commands
       IN SectionRun(k) /\ p # NoCommand /\ v # NoValue
            => /\ m.last_value = v
               /\ IF v.commandSequence = p.sequence
                  THEN /\ m.last_result = v
                       /\ ~pressed => m.pending_command = NoCommand
                  ELSE /\ m.last_result = mm_state[k].last_result
                       /\ ~pressed => m.pending_command = p]_vars

\* A run that met an answer to another sequence: the command is still
\* outstanding and nothing was accepted.
C11_Witness ==
  \E k \in BridgeKeys :
    /\ interaction.key = k
    /\ interaction.button = "none"
    /\ mm_state[k].pending_command # NoCommand
    /\ mm_state[k].last_value.commandSequence \in Times
    /\ mm_state[k].last_value.commandSequence # mm_state[k].pending_command.sequence
    /\ mm_state[k].last_result = NoValue

\* C12 as stated: pressing Connect, Switch network or Send transaction puts
\* a new command in place of whatever was outstanding, with a sequence
\* larger than that of every command created for the key before.
C12_SequenceStrictlyLarger ==
  [][\A k \in BridgeKeys :
       SectionRun(k) /\ interaction'.button \in Commands
         => /\ mm_state'[k].pending_command.command = interaction'.button
            /\ mm_state'[k].pending_command.sequence > created[k]]_vars

\* C13 as stated: once a send_transaction has replaced an outstanding
\* send_transaction, a run clears the command only for a value carrying the
\* second sequence, and a value carrying the first sequence leaves the
\* second command outstanding.
C13_OnlySecondSequenceClears ==
  [][\A k \in BridgeKeys :
       LET p == mm_state[k].pending_command
           v == component_value[k]
           first == superseded[k]
       IN SectionRun(k) /\ interaction'.button = "none" /\ first # None
            => /\ mm_state'[k].pending_command = NoCommand
                    => v.commandSequence = p.sequence
               /\ v.commandSequence = first
                    => mm_state'[k].pending_command = p]_vars

\* C14: an answer that matches the outstanding command and carries an error
\* clears the command and becomes last_result as a successful one does; and
\* in every state, while runs remain, a key with a stored state can be given
\* a new command or cleared, and a key without one can run its tool.
C14_NoTerminalFailure ==
  /\ [](\A k \in BridgeKeys :
          runs < MaxRuns
            => IF mm_state[k].present
               THEN ENABLED ConnectWallet(k) /\ ENABLED ClearMetaMaskState(k)
               ELSE ENABLED RunMetaMaskTool(k))
  /\ [][\A k \in BridgeKeys :
          LET p == mm_state[k].pending_command
              v == component_value[k]
          IN /\ SectionRun(k) /\ interaction'.button = "none"
             /\ p # NoCommand /\ v.error # "" /\ v.commandSequence = p.sequence
             => /\ mm_state'[k].pending_command = NoCommand
                /\ mm_state'[k].last_result = v]_vars

\* A key whose command was answered with an error, with runs remaining.
C14_Witness ==
  \E k \in BridgeKeys :
    /\ mm_state[k].present
    /\ mm_state[k].last_result.error # ""
    /\ mm_state[k].pending_command = NoCommand
    /\ runs < MaxRuns
\* The write tools of the pool and the role whose key and address each uses.
PoolWriteTools == {"deposit", "withdraw", "openLoan", "repay"}
ToolRole(fn) ==
  CASE fn \in {"deposit", "withdraw"} -> "Lender"
    [] fn = "repay" -> "Borrower"
    [] OTHER -> "Owner"

Usable(key) == key # NoKey /\ FromKey(key) # ""

\* The tool refused its arguments before it looked for a signer.
ArgumentsRejected(res) ==
  /\ "error" \in res.keys
  /\ res.error \in {InvalidAmountText, LimitText, InvalidBorrowerText,
                     InvalidPrincipalText, PrincipalLimitText, InvalidWalletText}

FeeQuoteFailed(c) == Len(c.quotes) > 0 /\ "raise" \in c.quotes[1].keys

\* C15: a write tool of the pool whose role (Owner, Lender or Borrower) has a
\* usable private key never answers with a browser-wallet request, whether or
\* not an address is assigned to the role; once its arguments are accepted it
\* signs as the key's account, allocates a nonce (unless the fee quote made
\* first failed) and, when nonce and fees were obtained, submits.
C15_KeyTakesPrecedence ==
  \A r \in AssignableRoles :
    (call.fn \in PoolWriteTools /\ ToolRole(call.fn) = r
     /\ Usable(private_keys[r]))
    => /\ "metamask" \notin result.keys
       /\ ~ArgumentsRejected(result)
          => /\ call.from = FromKey(private_keys[r])
             /\ call.allocs = 1 \/ FeeQuoteFailed(call)
             /\ (call.allocs = 1 /\ ~alloc.raised /\ ~FeeQuoteFailed(call))
                => Len(call.attempts) >= 1

\* The Owner has both a usable key and an assigned browser address, and
\* openLoan was signed with the key and mined.
C15_Witness ==
  /\ call.fn = "openLoan"
  /\ private_keys["Owner"] = "keyA"
  /\ role_addresses["Owner"] = WalletAddress
  /\ call.from = "0xAa"
  /\ Len(call.attempts) = 1
  /\ "txHash" \in result.keys
  /\ result.success

\* The tools of the two toolkits that send a transaction.
SbtWriteTools == {"issueScore", "revokeScore"}
WriteTools == SbtWriteTools \cup PoolWriteTools

\* The active role has neither a private key nor an assigned address.
NoSigner(r) ==
  /\ r \in AssignableRoles
  /\ private_keys[r] = NoKey
  /\ role_addresses[r] = ""

\* C16: a write tool run while the active role has neither a private key nor
\* an assigned address answers with an error, which says that the signer is
\* not configured unless the arguments were refused first, and it attempts
\* nothing: no nonce, no fee quote, no submission, no browser-wallet request.
C16_NoSignerFailsFast ==
  (call.fn \in WriteTools /\ NoSigner(role))
  => /\ "error" \in result.keys
     /\ ~ArgumentsRejected(result)
        => Contains(result.error, <<"not", "configured.">>)
     /\ call.allocs = 0
     /\ call.quotes = <<>>
     /\ call.attempts = <<>>
     /\ "metamask" \notin result.keys

\* The write tools the page lists for a role; the SBT write tools act as the
\* contract owner.
OwnWriteTools(r) ==
  CASE r = "Owner" -> SbtWriteTools \cup (owner_tools \cap PoolWriteTools)
    [] r = "Lender" -> lender_tools \cap PoolWriteTools
    [] r = "Borrower" -> borrower_tools \cap PoolWriteTools
    [] OTHER -> {}

\* C17: whatever tool is run from the tool page is a read tool or a write
\* tool of the active role, and under the Read-only role, or a role with
\* neither key nor address, no write tool of either toolkit is run.
C17_OnlyOwnToolsInvocable ==
  call.fn # ""
  => /\ call.fn \in sbt_read_tools \cup pool_read_tools \cup OwnWriteTools(role)
     /\ (role = "Read-only" \/ NoSigner(role)) => call.fn \notin WriteTools

\* A pass of the loop over tool calls has just been made: the step appended
\* the assistant's tool-call message at position Len(messages) + 1.
PassMade ==
  /\ loop = "running"
  /\ turns' = turns + 1

\* The tool calls of that pass, and the message appended for call i, if any.
PassCalls == messages'[Len(messages) + 1].tool_calls
HasToolMessage(i) == Len(messages') >= Len(messages) + 1 + i
ToolMessage(i) == messages'[Len(messages) + 1 + i]

Failure(output) ==
  /\ {"success", "error"} \subseteq output.keys
  /\ ~output.success

\* C18: in a pass of the loop, a tool call whose name is not in function_map
\* gets a tool message that is a Failure whose error text holds the name
\* asked for, and no handler is invoked for that call.
C18_UnregisteredNameFails ==
  [][PassMade =>
       \A i \in 1..Len(PassCalls) :
         PassCalls[i].name \notin function_map
         => /\ HasToolMessage(i)
            /\ ToolMessage(i).role = "tool"
            /\ ToolMessage(i).name = PassCalls[i].name
            /\ Failure(ToolMessage(i).output)
            /\ Contains(ToolMessage(i).output.error, <<PassCalls[i].name>>)
            /\ \A j \in 1..Len(invoked') : invoked'[j].index # i]_vars

\* The name "mint" was asked for first and a registered tool second: the
\* first got the Failure, the handler of the second was called.
C18_Witness ==
  /\ turns = 1
  /\ Len(messages) = 4
  /\ messages[2].tool_calls[1].name = "mint"
  /\ Contains(messages[3].output.error, <<"'", "mint", "'">>)
  /\ Len(invoked) = 1
  /\ invoked[1].index = 2

Faults == {"TypeError", "Exception"}

\* What C19 says of the loop: no exception of a handler leaves the pass,
\* every call of the response gets its tool message, and the message of a
\* call whose handler raised is a Failure.
LoopCatchesFaults ==
  PassMade
  => /\ loop' = "running"
     /\ Len(messages') = Len(messages) + 1 + Len(PassCalls)
     /\ \A j \in 1..Len(invoked') :
          invoked'[j].does \in Faults
          => Failure(ToolMessage(invoked'[j].index).output)

\* C19: an exception raised by a handler, a TypeError for rejected arguments
\* included, never leaves the loop or the tool runner; in both it becomes a
\* Failure ToolResult, and the loop goes on with the remaining calls.
C19_FaultsBecomeFailures ==
  [][/\ LoopCatchesFaults
     /\ page' # page
        => /\ page'.kind # "raised"
           /\ page'.does \in Faults => Failure(page'.result)]_vars

\* C19 as the code has it: the same for the loop; the tool runner catches
\* the exception too, but shows it as an error message on the page
\* ("Parameter mismatch: ..." for a TypeError, "Tool execution failed: ..."
\* otherwise) and makes no ToolResult of it.
C19_FaultsAmended ==
  [][/\ LoopCatchesFaults
     /\ page' # page
        => /\ page'.kind # "raised"
           /\ page'.does \in Faults
              => /\ page'.kind = "error"
                 /\ page'.result = EmptyDict
                 /\ Contains(page'.text,
                             IF page'.does = "TypeError" THEN MismatchPrefix
                             ELSE FailedPrefix)]_vars

\* The first handler of a pass raised and the second call was still handled;
\* on the tool page a handler rejected its arguments.
C19_Witness ==
  /\ loop = "running"
  /\ Len(messages) = 4
  /\ Len(invoked) = 2
  /\ invoked[1].does = "Exception"
  /\ messages[3].output = tool_error(FaultText)
  /\ messages[4].role = "tool"
  /\ page.does = "TypeError"
  /\ page.kind = "error"

LastMessage == messages[Len(messages)]

\* C20: once run_mcp_llm_conversation has returned, the last entry of the
\* history is an assistant message without tool calls that holds the content
\* of the response that ended the loop.
C20_ReturnsWithFinalAnswer ==
  loop = "returned"
  => /\ LastMessage.role = "assistant"
     /\ LastMessage.tool_calls = NoCalls
     /\ LastMessage.content = final_content

\* C20 as the code has it: the response without tool calls ends the loop; it
\* is appended as the final assistant message when its content is not empty,
\* and with an empty or missing content the history is left as it was, so
\* that its last entry is the user's message or a tool message.  After the
\* return the history no longer changes.
C20_ReturnAmended ==
  [][/\ (loop = "running" /\ loop' = "returned")
        => messages' = IF final_content' # ""
                       THEN Append(messages,
                                   Message("assistant", "", final_content',
                                           EmptyDict, NoCalls))
                       ELSE messages
     /\ loop = "returned" => (loop' = "returned" /\ messages' = messages)]_vars

\* After a pass over tool calls the model answered in words, and the answer
\* is the last entry of the history.
C20_Witness ==
  /\ loop = "returned"
  /\ turns = 1
  /\ final_content = "answer"
  /\ LastMessage.role = "assistant"
  /\ LastMessage.content = "answer"
  /\ messages[Len(messages) - 1].role = "tool"

\* C21: a pass over a response with tool calls leaves the earlier entries of
\* the history as they were, appends the assistant's tool-call message and
\* then one "tool" message per call, in the order of the calls, each with
\* the id and the name of its call and a serialized ToolResult; the next
\* completion is requested with the whole of that history.  No other step
\* changes or removes an earlier entry either.
C21_ToolMessagesInOrder ==
  [][/\ Len(messages') >= Len(messages)
     /\ SubSeq(messages', 1, Len(messages)) = messages
     /\ PassMade
        => /\ messages'[Len(messages) + 1].role = "assistant"
           /\ Len(PassCalls) >= 1
           /\ Len(messages') = Len(messages) + 1 + Len(PassCalls)
           /\ \A i \in 1..Len(PassCalls) :
                /\ ToolMessage(i).role = "tool"
                /\ ToolMessage(i).tool_call_id = PassCalls[i].id
                /\ ToolMessage(i).name = PassCalls[i].name
                /\ "success" \in ToolMessage(i).output.keys
           /\ requested' = messages']_vars

\* A response of two calls was handled: the history holds the question, the
\* tool-call message and the two tool messages with the ids of the calls,
\* and that history was sent back to the model.
C21_Witness ==
  /\ turns = 1
  /\ Len(messages) = 4
  /\ Len(messages[2].tool_calls) = 2
  /\ messages[2].tool_calls[2].id = "call_2"
  /\ messages[3].tool_call_id = "call_1"
  /\ messages[4].tool_call_id = "call_2"
  /\ requested = messages

\* C22: a tool call whose arguments are not valid JSON does not end the
\* pass: its handler, when the name is registered, is called with the empty
\* argument map, a tool message is appended for the call, and every call of
\* the response after it gets its tool message too.
C22_MalformedArgumentsDegrade ==
  [][PassMade =>
       \A i \in 1..Len(PassCalls) :
         PassCalls[i].args = "malformed"
         => /\ loop' = "running"
            /\ PassCalls[i].name \in function_map
               => \E j \in 1..Len(invoked') :
                    /\ invoked'[j].index = i
                    /\ invoked'[j].arguments = "{}"
            /\ \A k \in i..Len(PassCalls) :
                 /\ HasToolMessage(k)
                 /\ ToolMessage(k).tool_call_id = PassCalls[k].id]_vars

\* The first call of a response had malformed arguments and its handler
\* rejected the empty map; the second call was handled after it.
C22_Witness ==
  /\ turns = 1
  /\ Len(messages) = 4
  /\ messages[2].tool_calls[1].args = "malformed"
  /\ invoked[1].arguments = "{}"
  /\ invoked[1].does = "TypeError"
  /\ messages[3].output = tool_error(RejectedText)
  /\ Len(invoked) = 2
  /\ invoked[2].arguments = "given"

\* A ToolResult with its success flag, and an error text exactly when the
\* flag is false.
WellFormed(res) ==
  /\ "success" \in res.keys
  /\ res.success \in BOOLEAN
  /\ res.success => "error" \notin res.keys
  /\ ~res.success => ("error" \in res.keys /\ res.error # NoText)

\* C23: the ToolResult a write tool returns, whatever the node answered to
\* the submission (receipt, already known, underpriced, any failure) and
\* whichever check refused the call, has a boolean success and carries an
\* error text exactly when success is false; so has every tool_output the
\* loop makes itself (unregistered name, handler exception, wrapped payload).
C23_SuccessExcludesError ==
  /\ call.fn # "" => WellFormed(result)
  /\ \A tc \in ToolCalls : WellFormed(_invoke(tc).output)

\* A submission answered "replacement transaction underpriced" came back
\* from the tool as a success with that status and no error.
C23_Witness ==
  /\ call.fn # ""
  /\ Len(call.attempts) >= 1
  /\ result.status = "underpriced"
  /\ result.success
  /\ "error" \notin result.keys

\* The latest invocation is a pool write tool given a numeric amount
\* (principal) above the limit of 1.
OverLimitCall ==
  /\ call.fn \in PoolWriteTools
  /\ inputs.amount # NotANumber
  /\ inputs.amount # None
  /\ inputs.amount > 100

TestLimitFailure(fn) ==
  tool_error(IF fn = "openLoan" THEN PrincipalLimitText ELSE LimitText)

\* The invocation went no further than its argument checks: no nonce
\* allocated, no fee quote, no submission, the nonce state and the chain as
\* they were, and a Failure without a tx_request returned.
RejectedFirst ==
  /\ call'.allocs = 0
  /\ call'.quotes = <<>>
  /\ call'.attempts = <<>>
  /\ session_state' = session_state
  /\ submitted' = submitted
  /\ UNCHANGED <<txCount, pendingCount>>
  /\ ~result'.success
  /\ "tx_request" \notin result'.keys
  /\ "txHash" \notin result'.keys

\* C24 as stated: every deposit, withdraw, repay and openLoan with an amount
\* (principal) above 1 returns the test-limit Failure, whatever else it was
\* given.
C24_AlwaysTestLimitFailure ==
  OverLimitCall => result = TestLimitFailure(call.fn)

\* C24: deposit, withdraw, repay and openLoan with an amount (principal)
\* above 1 are rejected before the nonce allocator and the fee strategy are
\* reached, with the nonce state unchanged and no transaction or tx_request,
\* however the role's signer is configured; the Failure is the test-limit
\* one, except that openLoan given an invalid borrower address reports the
\* address instead.
C24_OverLimitRejectedFirst ==
  [][(Idle /\ OverLimitCall') =>
       /\ RejectedFirst
       /\ result' = IF call'.fn = "openLoan" /\ ~inputs'.address_ok
                    THEN tool_error(InvalidBorrowerText)
                    ELSE TestLimitFailure(call'.fn)]_vars

\* A deposit of 2 by a session whose Lender key is configured was refused
\* with the test-limit Failure.
C24_Witness ==
  /\ call.fn = "deposit"
  /\ inputs.amount = 200
  /\ private_keys.Lender = "keyB"
  /\ result = tool_error(LimitText)

\* An openLoan of principal 2 for an invalid borrower address was refused
\* for the address.
C24_AddressFirst ==
  /\ call.fn = "openLoan"
  /\ inputs.amount = 200
  /\ ~inputs.address_ok
  /\ result = tool_error(InvalidBorrowerText)

\* The latest invocation is a deposit of an amount within the limit by a
\* session whose Lender private key is configured (an account derives
\* from it).
DepositWithKey ==
  /\ call.fn = "deposit"
  /\ inputs.amount \in 0..100
  /\ _acct_for_key(private_keys.Lender) # ""

\* amount x 10^native_decimals, for an amount in hundredths.
UnitsOf(hundredths) == [digits |-> hundredths, zeros |-> native_decimals - 2]

\* C25: a deposit of an amount of at most 1 with a configured Lender
\* private key is signed on the server, never handed to the browser wallet;
\* once the nonce and the fees were obtained it is submitted, and the
\* submitted transaction has value = amount x 10^native_decimals, the same
\* number of units as contract argument, and from = the address derived
\* from the Lender key.
C25_DepositValueAndSender ==
  DepositWithKey =>
    /\ call.from = FromKey(private_keys.Lender)
    /\ "metamask" \notin result.keys
    /\ (call.allocs = 1 /\ ~alloc.raised
          /\ call.quotes # <<>> /\ "raise" \notin call.quotes[1].keys)
         => Len(call.attempts) = 1
    /\ \A i \in 1..Len(call.attempts) :
         LET tx == call.attempts[i].tx
         IN /\ tx.fn = "deposit"
            /\ tx.value = UnitsOf(inputs.amount)
            /\ tx.argument = UnitsOf(inputs.amount)
            /\ tx.from = FromKey(private_keys.Lender)

\* A deposit of 0.5 signed with the Lender key was submitted with
\* 0.5 x 10^18 as value and mined.
C25_Witness ==
  /\ DepositWithKey
  /\ inputs.amount = 50
  /\ Len(call.attempts) = 1
  /\ call.attempts[1].ev.kind = "receipt"
  /\ call.attempts[1].tx.value = [digits |-> 50, zeros |-> 16]
  /\ call.attempts[1].tx.from = "0xBb"
  /\ result.success

\* The preferred accessor of the contract answered the call.
PrimaryAnswered == contract.has_fn /\ contract.hasSbt \in {"True", "False"}
\* The fallback reached ownerOf: the token id was obtained.
OwnerOfCalled ==
  /\ ~PrimaryAnswered
  /\ ~(contract.has_fn /\ contract.hasSbt = "Exception")
  /\ ~(contract.tid_fn /\ contract.tokenIdOf \in CallFaults)

\* C26: hasSbt asks the preferred accessor first and tags what it returns:
\* strategy "hasSbt" only when that accessor answered, with its answer; when
\* it raised a contract-logic error and the ownerOf-based strategy answers,
\* a success tagged "ownerOf_fallback"; when ownerOf reverts, a success
\* with hasSbt = false tagged "ownerOf_revert".
C26_StrategiesInRankOrder ==
  (call.fn = "hasSbt" /\ inputs.address_ok) =>
    /\ PrimaryAnswered =>
         /\ result.success
         /\ result.strategy = "hasSbt"
         /\ result.hasSbt = (contract.hasSbt = "True")
    /\ (result.success /\ result.strategy = "hasSbt") => PrimaryAnswered
    /\ (contract.has_fn /\ contract.hasSbt = "ContractLogicError" /\ OwnerOfCalled
          /\ contract.ownerOf \notin CallFaults)
         => /\ result.success
            /\ result.strategy = "ownerOf_fallback"
            /\ result.owner = contract.ownerOf
            /\ result.hasSbt = (contract.ownerOf \notin {"None", ZeroAddress})
    /\ (OwnerOfCalled /\ contract.ownerOf = "ContractLogicError")
         => /\ result.success
            /\ ~result.hasSbt
            /\ result.strategy = "ownerOf_revert"

\* The preferred accessor reverted and ownerOf reverted as well: the tool
\* answered a success without SBT, tagged ownerOf_revert.
C26_Witness ==
  /\ call.fn = "hasSbt"
  /\ inputs.address_ok
  /\ contract.has_fn
  /\ contract.hasSbt = "ContractLogicError"
  /\ OwnerOfCalled
  /\ contract.ownerOf = "ContractLogicError"
  /\ result.success
  /\ result.strategy = "ownerOf_revert"

LastIssued(s) == sessions[s].issued[Len(sessions[s].issued)]
AllocatedIn(s) == Len(sessions'[s].issued) = Len(sessions[s].issued) + 1

\* C27: the nonce allocator of a session reads and writes that session's
\* NonceState only: an allocation leaves the NonceState of every other
\* session as it was, and the nonce issued is the count the chain reported
\* unless the session's own last nonce is not below it, whatever the other
\* sessions were issued. Nothing keeps two sessions that allocate for the
\* same signer on the same chain from being issued the same nonce.
C27_SessionsAllocateApart ==
  [][\A s \in Sessions : AllocatedIn(s) =>
       LET a == Lower(SharedSigner)
           last == sessions[s].state[a]
           n == sessions'[s].issued[Len(sessions'[s].issued)]
       IN /\ \A t \in Sessions \ {s} : sessions'[t] = sessions[t]
          /\ sessions'[s].state[a] = n
          /\ IF last = None
             THEN n \in txCount[a]..pendingCount[a]
             ELSE n > last /\ (n = last + 1 \/ n \in txCount[a]..pendingCount[a])]_vars

\* Both sessions were issued nonce 0 for the shared signer.
C27_Witness ==
  /\ sessions[1].issued # <<>>
  /\ sessions[2].issued # <<>>
  /\ LastIssued(1) = LastIssued(2)
  /\ sessions[1].state[Lower(SharedSigner)] = sessions[2].state[Lower(SharedSigner)]

\* C28: when the "Run MCP tool" button is pressed with a required parameter
\* of the selected tool left blank, the runner reports the missing
\* parameters and returns without calling the handler; in the tool-calling
\* loop a call whose arguments do not fit the handler's parameters ends as
\* a Failure.
C28_MissingArgumentsShortCircuit ==
  /\ (page.kind # "" /\ \E param \in RequiredParams : page.given[param] = "''")
       => /\ page.kind = "error"
          /\ page.text = MissingText
          /\ page.does = ""
          /\ page.result = EmptyDict
  /\ \A tc \in ToolCalls :
       (tc.name \in function_map /\ tc.does = "TypeError")
         => /\ ~_invoke(tc).output.success
            /\ _invoke(tc).output.error = RejectedText

\* The runner was pressed with the wallet address left blank and reported
\* the missing parameter.
C28_Witness ==
  /\ page.kind = "error"
  /\ page.given.wallet_address = "''"
  /\ page.given.score_value = "5"
  /\ page.text = MissingText
  /\ page.does = ""

\* What the fee strategy can quote for the environment as it is now.
QuotesNow ==
  {_fee_params(b, b, env.gas_price_gwei, env.prio_env, env.max_env) :
     b \in SessionBlocks}

\* C29 as stated: every submission of an invocation, a resend included,
\* carries the fees of a quote made for that submission.
C29_FreshQuotePerAttempt ==
  call.fn # "" =>
    /\ Len(call.quotes) >= Len(call.attempts)
    /\ \A i \in 1..Len(call.attempts) : call.attempts[i].tx.fees = call.quotes[i]

\* C29: every tool invocation that submits makes one fee quote of its own,
\* from the environment and the block as they are at that invocation, and
\* its first submission carries that quote; the one resend of issueScore and
\* revokeScore makes no new quote: it carries the fees of the first quote
\* multiplied by 1.15, with the same nonce.
C29_FreshQuotePerInvocation ==
  [][(Idle /\ call'.attempts # <<>>) =>
       /\ Len(call'.quotes) = 1
       /\ call'.quotes[1] \in QuotesNow
       /\ call'.attempts[1].tx.fees = call'.quotes[1]
       /\ Len(call'.attempts) <= 2
       /\ Len(call'.attempts) = 2 =>
            /\ call'.fn \in {"issueScore", "revokeScore"}
            /\ call'.attempts[2].tx.fees = Bumped(call'.quotes[1])
            /\ call'.attempts[2].tx.nonce = call'.attempts[1].tx.nonce]_vars

\* An invocation resent its transaction after one quote: the resend carries
\* fees that were not quoted for it.
C29_Witness ==
  /\ Len(call.attempts) = 2
  /\ Len(call.quotes) = 1
  /\ call.attempts[1].tx.fees = call.quotes[1]
  /\ call.attempts[2].tx.fees # call.quotes[1]
  /\ call.attempts[2].tx.fees = Bumped(call.quotes[1])

\* C30: in every run of the wallet section on a stored state, the component
\* is invoked with the name, the stored payload and the sequence of the
\* command outstanding when the run starts, and with none of the three when
\* no command is outstanding.
C30_InvokedWithPendingCommand ==
  [][\A k \in BridgeKeys :
       (SectionRun(k) /\ mm_state[k].present)
         => LET pending == mm_state[k].pending_command
            IN /\ interaction'.sent.command = pending.command
               /\ interaction'.sent.command_sequence = pending.sequence
               /\ interaction'.sent.command_payload = pending.payload]_vars

\* C31: in a run of the wallet section on a stored state, a value of the
\* component that answers the outstanding command clears the command,
\* becomes last_result, and its address and chainId, when it has them,
\* become the key's wallet_address and wallet_chain; any other value leaves
\* last_result, wallet_address and wallet_chain as they were, and the
\* command too unless a command button is pressed in that run.
C31_AcceptanceCachesWallet ==
  [][\A k \in BridgeKeys :
       LET old == mm_state[k]
           v == component_value[k]
           m == mm_state'[k]
           pressed == interaction'.button \in Commands
       IN (SectionRun(k) /\ old.present /\ v # NoValue) =>
            IF Resolves(old.pending_command, v)
            THEN /\ m.last_result = v
                 /\ ~pressed => m.pending_command = NoCommand
                 /\ m.wallet_address = IF v.address # "" THEN v.address
                                       ELSE old.wallet_address
                 /\ m.wallet_chain = IF v.chainId # None THEN v.chainId
                                     ELSE old.wallet_chain
            ELSE /\ m.last_result = old.last_result
                 /\ ~pressed => m.pending_command = old.pending_command
                 /\ m.wallet_address = old.wallet_address
                 /\ m.wallet_chain = old.wallet_chain]_vars

\* The answer to the outstanding command was accepted in a run without a
\* button: the command is gone and the chain it reported is cached.
C31_Witness ==
  \E k \in BridgeKeys :
    /\ interaction.key = k
    /\ interaction.button = "none"
    /\ interaction.sent.command # ""
    /\ mm_state[k].pending_command = NoCommand
    /\ mm_state[k].last_result.commandSequence = interaction.sent.command_sequence
    /\ mm_state[k].wallet_chain = WalletChain
    /\ mm_state[k].wallet_address = mm_state[k].last_result.address

\* The wallet action of key k is complete: the answer with the hash of the
\* sent transaction was accepted and no command is outstanding.
WalletActionComplete(k) ==
  /\ mm_state[k].present
  /\ mm_state[k].last_result.txHash # ""
  /\ mm_state[k].last_result.error = ""
  /\ mm_state[k].pending_command = NoCommand

\* C32: while a browser-wallet request is stored under a key the runner
\* does not invoke the tool's handler for that key, and the tool can be run
\* again once the wallet action is complete or the MetaMask state is
\* cleared.
C32_RunnableAfterCompletion ==
  \A k \in BridgeKeys :
    /\ (mm_state[k].present /\ ~WalletActionComplete(k)) => ~ENABLED RunMetaMaskTool(k)
    /\ (runs < MaxRuns /\ (~mm_state[k].present \/ WalletActionComplete(k)))
         => ENABLED RunMetaMaskTool(k)

\* The runner's guard alone: a stored request keeps the handler from being
\* invoked, a cleared state lets it run.
C32_GuardedByStoredRequest ==
  \A k \in BridgeKeys :
    /\ mm_state[k].present => ~ENABLED RunMetaMaskTool(k)
    /\ (runs < MaxRuns /\ ~mm_state[k].present) => ENABLED RunMetaMaskTool(k)

\* C33: a required parameter of the runner counts as missing only when no
\* value was supplied: a run whose text parameters are filled in and whose
\* required number is 0 reaches the handler and is not reported as a
\* missing parameter.
C33_ZeroIsNotMissing ==
  (/\ page.kind # ""
   /\ page.given.wallet_address # "''"
   /\ page.given.score_value = "0")
    => /\ page.text # MissingText
       /\ page.does # ""

\* C34: one invocation of a write tool runs the nonce allocator at most
\* once, makes at most one fee quote and submits at most twice, whatever the
\* node answers; a second submission is made only by issueScore and
\* revokeScore, only after the first was refused with an error that says
\* underpriced, and with the nonce of the first.
C34_RetryBounded ==
  call.fn \in WriteTools =>
    /\ call.allocs <= 1
    /\ Len(call.quotes) <= 1
    /\ Len(call.attempts) <= 2
    /\ Len(call.attempts) >= 1 => call.allocs = 1
    /\ Len(call.attempts) = 2 =>
         /\ call.fn \in {"issueScore", "revokeScore"}
         /\ "error" \in call.attempts[1].sent.keys
         /\ Contains(call.attempts[1].sent.error, <<"underpriced">>)
         /\ call.attempts[2].tx.nonce = call.attempts[1].tx.nonce

\* The resend was refused as underpriced as well, and the invocation ended
\* there with a Failure.
C34_Witness ==
  /\ call.fn = "issueScore"
  /\ Len(call.attempts) = 2
  /\ "error" \in call.attempts[2].sent.keys
  /\ Contains(call.attempts[2].sent.error, <<"underpriced">>)
  /\ ~result.success

\* ------------------------------------------------ length of a conversation
\* Most passes of the loop explored when every response asks for one tool.
MaxRounds == 3

\* The tool_calls of a response that asks for exactly one tool.
SingleCallLists == {<<[c EXCEPT !.id = "call_1"]>> : c \in ToolCalls}

\* A pass of the loop over a response with one tool call.
ToolCallsRound == Pass(SingleCallLists, MaxRounds)

TurnsNext ==
  \/ ToolCallsRound
  \/ FinalAnswer
  \/ CompletionFails

SpecTurns == ChatInit /\ [][TurnsNext]_vars

\* C35: the loop has no limit on its passes.  While the function is in the
\* loop another response with tool calls is always handled (the only stop
\* is the number of passes explored), so a model that asks for tools in
\* every response never lets it end; the function returns only in the pass
\* over a response without tool calls, which makes no request; and it has
\* made one request to the model per pass with tool calls plus the first.
C35_NoTurnLimit ==
  /\ [](loop = "running" /\ turns < MaxRounds => ENABLED ToolCallsRound)
  /\ [](loop \in {"running", "returned", "failed"} => requests = turns + 1)
  /\ [][loop' = "returned" /\ loop # "returned"
         => /\ loop = "running"
            /\ final_content' \in Contents
            /\ turns' = turns
            /\ requests' = requests
            /\ \A i \in 1..Len(messages') :
                 i > Len(messages) => messages'[i].tool_calls = NoCalls]_vars
  /\ [][turns' # turns /\ loop' = "running"
         => /\ turns' = turns + 1
            /\ requests' = requests + 1
            /\ messages'[Len(messages) + 1].tool_calls # NoCalls]_vars

\* Three passes with tool calls have been handled, four requests made, and
\* the function is still in the loop.
C35_Witness ==
  /\ loop = "running"
  /\ turns = 3
  /\ requests = 4

\* ------------------------------------------------------ browser-signed path
\* The key and the address a write tool of the pool was built with.
PoolKey(fn) ==
  CASE fn \in {"deposit", "withdraw"} -> lender_key
    [] fn = "openLoan" -> owner_key
    [] fn = "repay" -> borrower_key
PoolAddress(fn) ==
  CASE fn \in {"deposit", "withdraw"} -> lender_address
    [] fn = "openLoan" -> owner_address
    [] fn = "repay" -> borrower_address

\* The tool of this step got past the checks of its arguments and found an
\* address for its role but no private key it can sign with.
BrowserSigned(fn) ==
  /\ Idle
  /\ call'.fn = fn
  /\ inputs'.amount \notin {None, NotANumber}
  /\ ~OverLimit(inputs'.amount)
  /\ inputs'.address_ok
  /\ ~(_acct_for_key(PoolKey(fn)) # "" /\ PoolKey(fn) # NoKey)
  /\ PoolAddress(fn) # ""

FetchedCount ==
  IF alloc'.pendingRead # RpcError THEN alloc'.pendingRead ELSE alloc'.confirmedRead

\* This step allocates for an account whose last nonce n, handed out earlier
\* in the session, was not accepted by the node: the chain's pending count
\* is n, and n is what the allocator reads.
AllocatesAfterUnaccepted ==
  /\ Allocates
  /\ returned[alloc'.key] # None
  /\ pendingCount[alloc'.key] = returned[alloc'.key]
  /\ FetchedCount = returned[alloc'.key]

\* C37: after a nonce n whose transaction the node never accepted, the next
\* allocation for the account returns n again while the chain's pending
\* count is still n, and no submission carries a nonce above the chain's
\* pending count.
C37_NoGap ==
  [][/\ AllocatesAfterUnaccepted => alloc'.nonce = returned[alloc'.key]
     /\ Allocates
        => \A i \in 1..Len(call'.attempts) :
             Submits(call'.attempts[i].ev)
             => call'.attempts[i].tx.nonce <= pendingCount[alloc'.key]]_vars

\* C37, as the allocator behaves: it records every nonce it hands out, so
\* after a nonce n whose transaction the node never accepted the next
\* allocation returns n + 1 while the chain's pending count is still n, and
\* a submission made with it carries a nonce one above that count.
C37_UnacceptedNonceLeavesGap ==
  [][AllocatesAfterUnaccepted
     => /\ alloc'.nonce = returned[alloc'.key] + 1
        /\ session_state'[alloc'.key] = returned[alloc'.key] + 1
        /\ \A i \in 1..Len(call'.attempts) :
             call'.attempts[i].tx.nonce = pendingCount[alloc'.key] + 1]_vars

\* A second invocation submitted nonce n + 1 while the chain still counts n
\* transactions of the account, the first nonce n never having reached it.
C37_Witness ==
  /\ alloc.prev # None
  /\ alloc.nonce = alloc.prev + 1
  /\ pendingCount[alloc.key] = alloc.prev
  /\ alloc.prev \notin submitted[alloc.key]
  /\ Len(call.attempts) >= 1
  /\ Submits(call.attempts[1].ev)
  /\ call.attempts[1].tx.nonce = pendingCount[alloc.key] + 1

\* ------------------------------------------------- failure after acceptance
\* The node took a submission of the invocation being rendered.
NodeAccepted ==
  \E i \in 1..Len(call.attempts) : call.attempts[i].ev.accepted

\* C38: a server-signed write tool reports a failure only when the node did
\* not accept its transaction; whenever the node accepted a submission the
\* result is a success carrying the transaction hash, also when the wait
\* for the receipt fails afterwards.
C38_FailureOnlyWhenNotAccepted ==
  call.fn \in WriteTools /\ NodeAccepted
  => /\ result.success
     /\ "txHash" \in result.keys

\* ------------------------------------------------------- ceiling and tip
\* C39: every EIP-1559 quote has maxFeePerGas >= maxPriorityFeePerGas, for
\* every base fee and every setting of ARC_PRIORITY_FEE_GWEI and
\* ARC_MAX_FEE_GWEI, and so has the quote after the 15% bump of a resend.
C39_MaxFeeCoversPriority ==
  quote.made /\ "maxFeePerGas" \in quote.fees.keys
  => /\ quote.fees.maxFeePerGas >= quote.fees.maxPriorityFeePerGas
     /\ BumpFee(quote.fees.maxFeePerGas) >= BumpFee(quote.fees.maxPriorityFeePerGas)

\* ------------------------------------------------------ whose key signs
\* C40: every transaction a tool of the page signs on the server while role
\* R is active is signed with the private key bound to R: R has a key of
\* its own and the sender of every attempt is that key's account.
C40_SignedWithActiveRolesKey ==
  Len(call.attempts) >= 1
  => /\ role \in AssignableRoles
     /\ private_keys[role] # NoKey
     /\ \A i \in 1..Len(call.attempts) :
          call.attempts[i].tx.from = FromKey(private_keys[role])

====
